---- MODULE Spec2Model ----
(***************************************************************************)
(* Model of the pipeline execution engine and of the snapshot write        *)
(* protocol of palantir-compute-module-pipeline-template.                  *)
(*                                                                         *)
(*   - the worker pool: pkg/pipeline/worker/worker.go                      *)
(*     (ProcessAllWithCallback, processWithRetry, maxExtraRetries,         *)
(*     isTransient), one action per goroutine step;                        *)
(*   - the snapshot write: pkg/pipeline/io/foundry/io.go                   *)
(*     (UploadDatasetCSV, retryTransient, isTransient) against the         *)
(*     transaction endpoints of the platform.                              *)
(***************************************************************************)
EXTENDS Integers, Sequences, FiniteSets, TLC

VARIABLES
    items,        \* the input collection handed to the pool
    opts,         \* the pool options after withDefaults, and the callback's kind
    ctxCancelled, \* the caller's context has been cancelled
    runCancelled, \* cancel() of runCtx has been called
    firstErr,     \* the error registered by fail
    next,         \* position of the next item the producer offers on jobs
    jobsClosed,   \* the producer has returned and closed jobs
    wpc,          \* position of every worker goroutine
    wjob,         \* the index of the job a worker holds
    wattempt,     \* the attempt counter of processWithRetry
    wres,         \* the Result a worker is handing over
    done,         \* the buffered channel of completions
    doneClosed,   \* the closer goroutine has closed done
    mpc,          \* position of the calling goroutine
    mcur,         \* the completion whose callback is in progress
    out,          \* the result collection
    ret,          \* what ProcessAllWithCallback returned
    attempts,     \* processor invocations per item
    finals,       \* the Result processOne returned per item
    firstFail,    \* the first item that ended in a failure of its own (0: none yet)
    firstReg,     \* the first error handed to fail
    cbCount,      \* callback invocations per item
    cbFailed,     \* the callback has returned an error
    nrecv,        \* completions the calling goroutine has received
    reordered,    \* a completion was received after that of a later item
    cbActive,     \* invocations of the callback that have not returned yet
    enrichCalls,  \* invocations of Enricher.Enrich per item
    txns,         \* the platform's transactions of the output dataset, oldest first
    upc,          \* position of UploadDatasetCSV
    ui,           \* the attempt counter i of retryTransient
    usleep,       \* retryTransient is in its backoff sleep
    txnID,        \* UploadDatasetCSV's txnID
    createdTxn,   \* UploadDatasetCSV's createdTxn
    uret,         \* what UploadDatasetCSV returned
    ulog,         \* the calls UploadDatasetCSV has issued and their outcomes
    cfg,          \* RunFoundry's configuration and the Enricher's behaviour per identifier
    dest,         \* the output: the committed snapshot file and the stream's records
    run,          \* the position and the locals of the current RunFoundry call
    hist,         \* the run's number and kind, its Enricher and publish calls
    timer,        \* the backoff options, the attempt and the sleep of processWithRetry
    srv           \* the emulator: its transactions and the requests it is serving

poolVars == <<items, opts, ctxCancelled, runCancelled, firstErr, next, jobsClosed,
              wpc, wjob, wattempt, wres, done, doneClosed, mpc, mcur, out, ret,
              attempts, finals, firstFail, firstReg, cbCount, cbFailed, nrecv, reordered, cbActive, enrichCalls>>

poolFrame == <<items, opts, runCancelled, firstErr, next, jobsClosed,
               wpc, wjob, wattempt, wres, done, doneClosed, mpc, mcur, out, ret,
               attempts, finals, firstFail, firstReg, cbCount, cbFailed, nrecv, reordered, cbActive, enrichCalls>>

uploadVars == <<txns, upc, ui, usleep, txnID, createdTxn, uret, ulog>>

appVars == <<cfg, dest, run, hist>>

vars == <<poolVars, uploadVars, appVars, timer, srv>>

----------------------------------------------------------------------------
(* Bounds of the explored configurations. *)

MaxItems == 2
MaxWorkers == 2
MaxRetriesCfg == 1
RetryMaxRetries == 2
RetryMaxCap == 2
RetryMaxItems == 1
MaxPreTxns == 2

(* Program constants. *)
DefaultWorkers == 10
RetryAttempts == 8
ListPageSize == 100
ListMaxPages == 5

----------------------------------------------------------------------------
(* Errors and results. *)

NoErr == [tag |-> "nil", cap |-> 0, item |-> 0]
Canceled == [tag |-> "canceled", cap |-> 0, item |-> 0]
CallbackErr(i) == [tag |-> "callback", cap |-> 0, item |-> i]

ZeroItem == [id |-> 0, kind |-> "zero", cap |-> 0, raw |-> <<>>]
ZeroResult == [input |-> ZeroItem, output |-> "zero", err |-> NoErr]
NoReturn == [out |-> <<>>, err |-> NoErr, returned |-> FALSE]

(* strings.TrimSpace, on an identifier given as its sequence of characters. *)
IsSpace(c) == c \in {" ", "\t", "\n"}

RECURSIVE TrimLeft(_)
TrimLeft(s) ==
    IF s /= <<>> /\ IsSpace(Head(s)) THEN TrimLeft(Tail(s)) ELSE s

RECURSIVE TrimRight(_)
TrimRight(s) ==
    IF s /= <<>> /\ IsSpace(s[Len(s)]) THEN TrimRight(SubSeq(s, 1, Len(s) - 1)) ELSE s

TrimSpace(s) == TrimRight(TrimLeft(s))

(* What Enricher.Enrich returns for an item's identifier on a given attempt. *)
Enrich(item, attempt) ==
    CASE item.kind = "good" -> NoErr
      [] item.kind = "flaky" ->
            IF attempt = 0 THEN [tag |-> "trans", cap |-> 0, item |-> item.id] ELSE NoErr
      [] item.kind = "lim" -> [tag |-> "lim", cap |-> item.cap, item |-> item.id]
      [] OTHER -> [tag |-> item.kind, cap |-> 0, item |-> item.id]

EmptyEmail(i) == [tag |-> "empty email", cap |-> 0, item |-> i]

(* emailProcessor: the processor the pipeline hands to the pool. `enrich` *)
(* tells whether this invocation calls Enricher.Enrich.                   *)
emailProcessorWithoutTrim(item, attempt) ==
    IF item.raw = <<>>
    THEN [enrich |-> FALSE, err |-> EmptyEmail(item.id)]
    ELSE [enrich |-> TRUE, err |-> Enrich(item, attempt)]

emailProcessor(item, attempt) ==
    IF TrimSpace(item.raw) = <<>>
    THEN [enrich |-> FALSE, err |-> EmptyEmail(item.id)]
    ELSE [enrich |-> TRUE, err |-> Enrich(item, attempt)]

(* What the processor returns for an item on a given attempt. *)
ProcessorErr(item, attempt) == emailProcessor(item, attempt).err

(* err.Error(): the text of an error. An Enricher of kind "mute" fails with *)
(* an error whose text is blank, one of kind "leak" with a text that holds *)
(* a key.                                                                  *)
ErrorText(err) ==
    CASE err.tag = "mute" -> " "
      [] err.tag = "leak" -> "api_key=k"
      [] OTHER -> err.tag

(* redact.Secrets: secret-bearing substrings are replaced and the result   *)
(* is trimmed.                                                             *)
Secrets(s) ==
    CASE s \in {"", " "} -> ""
      [] s = "api_key=k" -> "<redacted_kv>"
      [] OTHER -> s

(* rowFromWorkerResult: the output row of a pool result. *)
rowFromWorkerResultAlwaysOk(res) ==
    [email |-> TrimSpace(res.input.raw), status |-> "ok", error |-> ""]

rowFromWorkerResult(res) ==
    [email |-> TrimSpace(res.input.raw),
     status |-> IF res.err /= NoErr THEN "error" ELSE "ok",
     error |-> IF res.err /= NoErr THEN Secrets(ErrorText(res.err)) ELSE ""]

(* Options.withDefaults, the backoff fields; durations in units of 100 ms, *)
(* the jitter fraction in tenths.                                         *)
DefaultBackoffInitial == 2
DefaultBackoffMax == 20
DefaultJitterTenths == 2

backoffDefaults(o) ==
    [initial |-> IF o.initial <= 0 THEN DefaultBackoffInitial ELSE o.initial,
     max |-> IF o.max <= 0 THEN DefaultBackoffMax ELSE o.max,
     jitter |-> IF o.jitter <= 0 THEN DefaultJitterTenths ELSE o.jitter]

(* backoffSleep: the doubling loop, then the jitter. `u` stands for        *)
(* (rand.Float64()*2 - 1) in tenths, -10..9; the product is truncated to a *)
(* whole duration.                                                         *)
RECURSIVE doubledUncapped(_, _, _, _)
doubledUncapped(sleep, max, attempt, i) ==
    IF i < attempt THEN doubledUncapped(2 * sleep, max, attempt, i + 1) ELSE sleep

RECURSIVE doubled(_, _, _, _)
doubled(sleep, max, attempt, i) ==
    IF i < attempt /\ sleep < max
    THEN IF 2 * sleep > max THEN max ELSE doubled(2 * sleep, max, attempt, i + 1)
    ELSE sleep

backoffSleepUncapped(initial, max, jitter, attempt, u) ==
    LET sleep == doubledUncapped(initial, max, attempt, 0)
    IN  IF jitter <= 0 THEN sleep
        ELSE (sleep * (100 + u * jitter)) \div 100

backoffSleep(initial, max, jitter, attempt, u) ==
    LET sleep == doubled(initial, max, attempt, 0)
    IN  IF jitter <= 0 THEN sleep
        ELSE (sleep * (100 + u * jitter)) \div 100

NoTimer == [pc |-> "idle", initial |-> 0, max |-> 0, jitter |-> 0, attempt |-> 0, sleep |-> 0]

TimerIdle == timer = NoTimer

(* The emulator serving nothing. *)
ServerIdle == srv = [txns |-> <<>>, reqs |-> <<>>]

(* Options.withDefaults: the fields the pool's control flow depends on. *)
withDefaults(o) ==
    [o EXCEPT !.workers = IF o.workers <= 0 THEN DefaultWorkers ELSE o.workers,
              !.maxRetries = IF o.maxRetries < 0 THEN 0 ELSE o.maxRetries]

(* isTransient: TransientError, LimitedTransientError, DeadlineExceeded, *)
(* or a net.Error that is Timeout() or Temporary().                      *)
isTransientAnyError(err) ==
    err /= NoErr

(* The untagged errors that are a net.Error, and what their Timeout() and   *)
(* Temporary() report: a refused or reset connection (syscall.ECONNREFUSED, *)
(* syscall.ECONNRESET, bare or in a *net.OpError of a dial, read or write)  *)
(* is a net.Error for which both are false.                                 *)
NetErrors == {"nettimeout", "nettemp", "connreset", "connrefused"}

Timeout(err) == err.tag = "nettimeout"

Temporary(err) == err.tag \in {"nettimeout", "nettemp"}

isTransientEveryNetError(err) ==
    \/ err.tag \in {"trans", "lim"}
    \/ err.tag = "deadline"
    \/ err.tag \in NetErrors

isTransient(err) ==
    \/ err.tag \in {"trans", "lim"}
    \/ err.tag = "deadline"
    \/ err.tag \in NetErrors /\ (Timeout(err) \/ Temporary(err))

(* maxExtraRetries. *)
maxExtraRetriesIgnoresCap(defaultRetries, err) ==
    IF defaultRetries < 0 THEN 0 ELSE defaultRetries

maxExtraRetries(defaultRetries, err) ==
    LET d == IF defaultRetries < 0 THEN 0 ELSE defaultRetries
        limited == IF err.cap < 0 THEN 0 ELSE err.cap
    IN  IF err.tag = "lim" /\ limited < d THEN limited ELSE d

(* processWithRetry, line 241-244: the failure of this attempt is final. *)
isFinalFailureOneMore(err, attempt, configured) ==
    ~isTransient(err) \/ attempt > maxExtraRetries(configured, err)

isFinalFailure(err, attempt, configured) ==
    ~isTransient(err) \/ attempt >= maxExtraRetries(configured, err)

(* workerFn, line 142: the worker reports the failure and stops. *)
shouldFailNever(err, policy) ==
    FALSE

shouldFailUnderPartialOutput(err, policy) ==
    err /= NoErr /\ policy = "partial"

shouldFailAlways(err, policy) ==
    err /= NoErr

shouldFail(err, policy) ==
    err /= NoErr /\ policy = "failfast"

(* workerFn, lines 136-146: where the worker goes once its completion is sent. *)
afterSendRetries(err, policy) ==
    IF err /= NoErr THEN "loop" ELSE "recv"

afterSend(err, policy) ==
    IF shouldFail(err, policy) THEN "fail" ELSE "recv"

(* The calling goroutine's `out[item.idx] = item.res`; k completions were *)
(* received before this one.                                              *)
storeResultInArrivalOrder(o, idx, res, k) ==
    [o EXCEPT ![k + 1] = res]

storeResult(o, idx, res, k) ==
    [o EXCEPT ![idx] = res]

(* runCtx is done: the caller's ctx is, fail has cancelled it, or the call *)
(* has returned (the deferred cancel).                                     *)
Cancelled == ctxCancelled \/ runCancelled
RunCtxErrOfCallerOnly == ctxCancelled \/ mpc = "returned"

RunCtxErr == Cancelled \/ mpc = "returned"

Workers == DOMAIN wpc

----------------------------------------------------------------------------
(* fail(err): under mu, the first error wins and cancels runCtx. *)
failUpdateLastWins(err, fe, rc) ==
    <<err, TRUE>>

failUpdate(err, fe, rc) ==
    IF fe = NoErr THEN <<err, TRUE>> ELSE <<fe, rc>>

Fail(err) ==
    /\ firstErr' = failUpdate(err, firstErr, runCancelled)[1]
    /\ runCancelled' = failUpdate(err, firstErr, runCancelled)[2]
    /\ firstReg' = IF firstReg = NoErr THEN err ELSE firstReg

(* A worker that holds no job: its locals are dead. *)
Idle(w, pc) ==
    /\ wpc' = [wpc EXCEPT ![w] = pc]
    /\ wjob' = [wjob EXCEPT ![w] = 0]
    /\ wattempt' = [wattempt EXCEPT ![w] = 0]
    /\ wres' = [wres EXCEPT ![w] = ZeroResult]

(* processOne returns: the item's Result is final. *)
Finalize(w, err) ==
    LET i == wjob[w]
        res == [input |-> items[i],
                output |-> IF err = NoErr THEN "value" ELSE "zero",
                err |-> err]
    IN  /\ wres' = [wres EXCEPT ![w] = res]
        /\ finals' = [finals EXCEPT ![i] = res]
        /\ firstFail' = IF err = NoErr \/ err = Canceled \/ firstFail /= 0 THEN firstFail ELSE i
        /\ wpc' = [wpc EXCEPT ![w] = "send"]

----------------------------------------------------------------------------
(* Producer goroutine (lines 154-163). *)

\* The producer leaves its loop after the last item, or in the select when
\* runCtx is done.
producerStopsAfterLastItemOnly ==
    next > Len(items)

producerStops ==
    next > Len(items) \/ RunCtxErr

\* `jobs <- job{idx: i, in: item}` meets a worker's `range jobs`. The workers
\* waiting on jobs are interchangeable: the one of lowest number takes the job.
WorkerRecv(w) ==
    /\ wpc[w] = "recv"
    /\ \A v \in Workers : v < w => wpc[v] /= "recv"
    /\ ~jobsClosed
    /\ next <= Len(items)
    /\ wjob' = [wjob EXCEPT ![w] = next]
    /\ next' = next + 1
    /\ wpc' = [wpc EXCEPT ![w] = "check"]
    /\ UNCHANGED <<items, opts, ctxCancelled, runCancelled, firstErr, jobsClosed,
                   wattempt, wres, done, doneClosed, mpc, mcur, out, ret,
                   attempts, finals, firstFail, firstReg, cbCount, cbFailed, nrecv, reordered, cbActive, enrichCalls>>

\* The loop ends, or `<-runCtx.Done()` is taken: return, and the deferred close(jobs).
ProducerClose ==
    /\ ~jobsClosed
    /\ producerStops
    /\ jobsClosed' = TRUE
    /\ UNCHANGED <<items, opts, ctxCancelled, runCancelled, firstErr, next,
                   wpc, wjob, wattempt, wres, done, doneClosed, mpc, mcur, out, ret,
                   attempts, finals, firstFail, firstReg, cbCount, cbFailed, nrecv, reordered, cbActive, enrichCalls>>

----------------------------------------------------------------------------
(* Worker goroutines (lines 130-147, 206-255). *)

\* `range jobs` on the closed channel: the worker returns.
WorkerJobsClosed(w) ==
    /\ wpc[w] = "recv"
    /\ jobsClosed
    /\ wpc' = [wpc EXCEPT ![w] = "exit"]
    /\ UNCHANGED <<items, opts, ctxCancelled, runCancelled, firstErr, next, jobsClosed,
                   wjob, wattempt, wres, done, doneClosed, mpc, mcur, out, ret,
                   attempts, finals, firstFail, firstReg, cbCount, cbFailed, nrecv, reordered, cbActive, enrichCalls>>

\* line 133: `if runCtx.Err() != nil { return }`, else enter processWithRetry.
WorkerCheck(w) ==
    /\ wpc[w] = "check"
    /\ IF RunCtxErr
       THEN Idle(w, "exit")
       ELSE /\ wpc' = [wpc EXCEPT ![w] = "loop"]
            /\ wattempt' = [wattempt EXCEPT ![w] = 0]
            /\ UNCHANGED <<wjob, wres>>
    /\ UNCHANGED <<items, opts, ctxCancelled, runCancelled, firstErr, next, jobsClosed,
                   done, doneClosed, mpc, mcur, out, ret,
                   attempts, finals, firstFail, firstReg, cbCount, cbFailed, nrecv, reordered, cbActive, enrichCalls>>

\* line 215: `if err := ctx.Err(); err != nil { return lastOut, err }`.
WorkerLoop(w) ==
    /\ wpc[w] = "loop"
    /\ IF RunCtxErr
       THEN Finalize(w, Canceled)
       ELSE /\ wpc' = [wpc EXCEPT ![w] = "call"]
            /\ UNCHANGED <<wres, finals, firstFail>>
    /\ UNCHANGED <<items, opts, ctxCancelled, runCancelled, firstErr, next, jobsClosed,
                   wjob, wattempt, done, doneClosed, mpc, mcur, out, ret,
                   attempts, firstReg, cbCount, cbFailed, nrecv, reordered, cbActive, enrichCalls>>

\* line 230: the processor is invoked.
WorkerInvoke(w) ==
    /\ wpc[w] = "call"
    /\ wpc' = [wpc EXCEPT ![w] = "running"]
    /\ attempts' = [attempts EXCEPT ![wjob[w]] = @ + 1]
    /\ enrichCalls' = [enrichCalls EXCEPT ![wjob[w]] =
                          IF emailProcessor(items[wjob[w]], wattempt[w]).enrich THEN @ + 1 ELSE @]
    /\ UNCHANGED <<items, opts, ctxCancelled, runCancelled, firstErr, next, jobsClosed,
                   wjob, wattempt, wres, done, doneClosed, mpc, mcur, out, ret,
                   finals, firstFail, firstReg, cbCount, cbFailed, nrecv, reordered, cbActive>>

\* lines 230-244: the processor returns; a processor that observes the cancelled
\* request context may return context.Canceled instead of its own outcome.
WorkerReturn(w) ==
    /\ wpc[w] = "running"
    /\ \E err \in {ProcessorErr(items[wjob[w]], wattempt[w])}
                  \cup (IF RunCtxErr THEN {Canceled} ELSE {}) :
          IF err = NoErr \/ err = Canceled \/ isFinalFailure(err, wattempt[w], opts.maxRetries)
          THEN Finalize(w, err)
          ELSE /\ wpc' = [wpc EXCEPT ![w] = "sleep"]
               /\ UNCHANGED <<wres, finals, firstFail>>
    /\ UNCHANGED <<items, opts, ctxCancelled, runCancelled, firstErr, next, jobsClosed,
                   wjob, wattempt, done, doneClosed, mpc, mcur, out, ret,
                   attempts, firstReg, cbCount, cbFailed, nrecv, reordered, cbActive, enrichCalls>>

\* lines 246-249: the backoff timer fires, next attempt.
WorkerWake(w) ==
    /\ wpc[w] = "sleep"
    /\ wpc' = [wpc EXCEPT ![w] = "loop"]
    /\ wattempt' = [wattempt EXCEPT ![w] = @ + 1]
    /\ UNCHANGED <<items, opts, ctxCancelled, runCancelled, firstErr, next, jobsClosed,
                   wjob, wres, done, doneClosed, mpc, mcur, out, ret,
                   attempts, finals, firstFail, firstReg, cbCount, cbFailed, nrecv, reordered, cbActive, enrichCalls>>

\* lines 250-252: what processWithRetry returns when `<-ctx.Done()` is taken
\* during the backoff sleep; lastErr is the error of the attempt before it.
backoffCancelledReturnsLast(lastErr) ==
    lastErr

backoffCancelled(lastErr) ==
    Canceled

\* lines 250-252: `<-ctx.Done()` during the backoff sleep.
WorkerSleepCancelled(w) ==
    /\ wpc[w] = "sleep"
    /\ RunCtxErr
    /\ Finalize(w, backoffCancelled(ProcessorErr(items[wjob[w]], wattempt[w])))
    /\ UNCHANGED <<items, opts, ctxCancelled, runCancelled, firstErr, next, jobsClosed,
                   wjob, wattempt, done, doneClosed, mpc, mcur, out, ret,
                   attempts, firstReg, cbCount, cbFailed, nrecv, reordered, cbActive, enrichCalls>>

\* line 138: `done <- completion{...}`; a result that is not a fail-fast
\* failure takes the worker back to `range jobs`.
WorkerSend(w) ==
    /\ wpc[w] = "send"
    /\ Len(done) < opts.workers
    /\ done' = Append(done, [idx |-> wjob[w], res |-> wres[w]])
    /\ IF afterSend(wres[w].err, opts.policy) = "recv"
       THEN Idle(w, "recv")
       ELSE /\ wpc' = [wpc EXCEPT ![w] = afterSend(wres[w].err, opts.policy)]
            /\ UNCHANGED <<wjob, wattempt, wres>>
    /\ UNCHANGED <<items, opts, ctxCancelled, runCancelled, firstErr, next, jobsClosed,
                   doneClosed, mpc, mcur, out, ret,
                   attempts, finals, firstFail, firstReg, cbCount, cbFailed, nrecv, reordered, cbActive, enrichCalls>>

\* line 139: `<-runCtx.Done()` is taken instead of the send; the worker returns.
WorkerAbandon(w) ==
    /\ wpc[w] = "send"
    /\ RunCtxErr
    /\ Idle(w, "exit")
    /\ UNCHANGED <<items, opts, ctxCancelled, runCancelled, firstErr, next, jobsClosed,
                   done, doneClosed, mpc, mcur, out, ret,
                   attempts, finals, firstFail, firstReg, cbCount, cbFailed, nrecv, reordered, cbActive, enrichCalls>>

\* lines 142-145: fail(res.Err); return.
WorkerFail(w) ==
    /\ wpc[w] = "fail"
    /\ Fail(wres[w].err)
    /\ Idle(w, "exit")
    /\ UNCHANGED <<items, opts, ctxCancelled, next, jobsClosed,
                   done, doneClosed, mpc, mcur, out, ret,
                   attempts, finals, firstFail, cbCount, cbFailed, nrecv, reordered, cbActive, enrichCalls>>

\* lines 165-168: wg.Wait(); close(done).
CloserClose ==
    /\ ~doneClosed
    /\ \A w \in Workers : wpc[w] = "exit"
    /\ doneClosed' = TRUE
    /\ UNCHANGED <<items, opts, ctxCancelled, runCancelled, firstErr, next, jobsClosed,
                   wpc, wjob, wattempt, wres, done, mpc, mcur, out, ret,
                   attempts, finals, firstFail, firstReg, cbCount, cbFailed, nrecv, reordered, cbActive, enrichCalls>>

----------------------------------------------------------------------------
(* Calling goroutine (lines 170-188). *)

\* line 172: `if onResult != nil`, for the completion of item idx; o is out.
callbackDueInInputOrder(cb, idx, o) ==
    cb /= "none" /\ \A k \in 1..(idx - 1) : o[k] /= ZeroResult

callbackDue(cb, idx, o) ==
    cb /= "none"

\* The body of `for item := range done` runs to its end, callback included,
\* before the next completion is received.
collectorReadyAnytime(pc) ==
    pc \in {"range", "callback"}

collectorReady(pc) ==
    pc = "range"

\* `for item := range done`: out[item.idx] = item.res, then the callback is invoked.
MainRecv ==
    /\ collectorReady(mpc)
    /\ done /= <<>>
    /\ done' = Tail(done)
    /\ out' = storeResult(out, Head(done).idx, Head(done).res, nrecv)
    /\ nrecv' = nrecv + 1
    /\ reordered' = (reordered \/ \E j \in 1..Len(items) :
                                     j > Head(done).idx /\ out[j] /= ZeroResult)
    /\ IF ~callbackDue(opts.callback, Head(done).idx, out)
       THEN UNCHANGED <<mpc, mcur, cbCount, cbActive>>
       ELSE /\ mpc' = "callback"
            /\ mcur' = Head(done).idx
            /\ cbCount' = [cbCount EXCEPT ![Head(done).idx] = @ + 1]
            /\ cbActive' = cbActive + 1
    /\ UNCHANGED <<items, opts, ctxCancelled, runCancelled, firstErr, next, jobsClosed,
                   wpc, wjob, wattempt, wres, doneClosed, ret,
                   attempts, finals, firstFail, firstReg, cbFailed, enrichCalls>>

\* lines 173-175: onResult returns; an error is handed to fail.
CallbackReturn ==
    /\ mpc = "callback"
    /\ mpc' = "range"
    /\ mcur' = 0
    /\ cbActive' = cbActive - 1
    /\ \E failed \in (IF opts.callback = "mayfail" THEN BOOLEAN ELSE {FALSE}) :
          /\ cbFailed' = (cbFailed \/ failed)
          /\ IF failed
             THEN Fail(CallbackErr(mcur))
             ELSE UNCHANGED <<firstErr, runCancelled, firstReg>>
    /\ UNCHANGED <<items, opts, ctxCancelled, next, jobsClosed,
                   wpc, wjob, wattempt, wres, done, doneClosed, out, ret,
                   attempts, finals, firstFail, cbCount, nrecv, reordered, enrichCalls>>

\* lines 179-188 and the deferred cancel().
returnValueCallerFirst(fe, callerErr, o) ==
    IF callerErr THEN [out |-> <<>>, err |-> Canceled, returned |-> TRUE]
    ELSE IF fe /= NoErr THEN [out |-> <<>>, err |-> fe, returned |-> TRUE]
    ELSE [out |-> o, err |-> NoErr, returned |-> TRUE]

returnValueIgnoresCaller(fe, callerErr, o) ==
    IF fe /= NoErr THEN [out |-> <<>>, err |-> fe, returned |-> TRUE]
    ELSE [out |-> o, err |-> NoErr, returned |-> TRUE]

returnValue(fe, callerErr, o) ==
    IF fe /= NoErr THEN [out |-> <<>>, err |-> fe, returned |-> TRUE]
    ELSE IF callerErr THEN [out |-> <<>>, err |-> Canceled, returned |-> TRUE]
    ELSE [out |-> o, err |-> NoErr, returned |-> TRUE]

MainReturn ==
    /\ mpc = "range"
    /\ done = <<>>
    /\ doneClosed
    /\ ret' = returnValue(firstErr, ctxCancelled, out)
    /\ mpc' = "returned"
    /\ UNCHANGED <<items, opts, ctxCancelled, runCancelled, firstErr, next, jobsClosed,
                   wpc, wjob, wattempt, wres, done, doneClosed, mcur, out,
                   attempts, finals, firstFail, firstReg, cbCount, cbFailed, nrecv, reordered, cbActive, enrichCalls>>

\* The caller cancels ctx while the run is in progress.
CallerCancel ==
    /\ ~ctxCancelled
    /\ mpc /= "returned"
    /\ ctxCancelled' = TRUE
    /\ UNCHANGED <<items, opts, runCancelled, firstErr, next, jobsClosed,
                   wpc, wjob, wattempt, wres, done, doneClosed, mpc, mcur, out, ret,
                   attempts, finals, firstFail, firstReg, cbCount, cbFailed, nrecv, reordered, cbActive, enrichCalls>>

----------------------------------------------------------------------------
(* Construction: the state on entry of ProcessAllWithCallback, after the *)
(* workers, the producer and the closer have been started.                *)

ItemSeqs(kinds, caps, n) ==
    UNION {{[i \in 1..k |-> [id |-> i, kind |-> f[i][1], cap |-> f[i][2], raw |-> <<"a">>]] :
              f \in [1..k -> {<<kd, IF kd = "lim" THEN c ELSE 0>> : kd \in kinds, c \in caps}]} :
           k \in 1..n}

(* Input collections of raw identifiers, with the Enricher's behaviour for each. *)
RawItemSeqs(kinds, raws, n) ==
    UNION {{[i \in 1..k |-> [id |-> i, kind |-> f[i][1], cap |-> 0, raw |-> f[i][2]]] :
              f \in [1..k -> kinds \X raws]} :
           k \in 1..n}

(* The spawn loop: one goroutine running workerFn per configured worker. *)
spawnedOneExtra(o) ==
    1..(o.workers + 1)

spawned(o) ==
    1..o.workers

PoolInit(its, o) ==
    /\ items = its
    /\ opts = withDefaults(o)
    /\ ctxCancelled = FALSE
    /\ runCancelled = FALSE
    /\ firstErr = NoErr
    /\ next = 1
    /\ jobsClosed = FALSE
    /\ wpc = [w \in spawned(withDefaults(o)) |-> "recv"]
    /\ wjob = [w \in spawned(withDefaults(o)) |-> 0]
    /\ wattempt = [w \in spawned(withDefaults(o)) |-> 0]
    /\ wres = [w \in spawned(withDefaults(o)) |-> ZeroResult]
    /\ done = <<>>
    /\ doneClosed = FALSE
    /\ mpc = "range"
    /\ mcur = 0
    /\ out = [i \in 1..Len(its) |-> ZeroResult]
    /\ ret = NoReturn
    /\ attempts = [i \in 1..Len(its) |-> 0]
    /\ finals = [i \in 1..Len(its) |-> ZeroResult]
    /\ firstFail = 0
    /\ firstReg = NoErr
    /\ cbCount = [i \in 1..Len(its) |-> 0]
    /\ cbFailed = FALSE
    /\ nrecv = 0
    /\ reordered = FALSE
    /\ cbActive = 0
    /\ enrichCalls = [i \in 1..Len(its) |-> 0]


----------------------------------------------------------------------------
(* The platform's transaction endpoints, as the repository's emulator      *)
(* implements them (pkg/mockfoundry).                                      *)

NoIOErr == [kind |-> "nil", status |-> 0, name |-> "", code |-> ""]
HTTPError(status, name, code) == [kind |-> "http", status |-> status, name |-> name, code |-> code]
CtxCanceled == [kind |-> "canceled", status |-> 0, name |-> "", code |-> ""]
NoOpenTxnErr == [kind |-> "other", status |-> 0, name |-> "no OPEN transaction", code |-> ""]

TxnIndex(ts, id) == {k \in 1..Len(ts) : ts[k].id = id}

\* handleCreateTransaction: 409 while the branch has an open transaction.
handleCreateTransaction(ts, branch) ==
    IF \E k \in 1..Len(ts) : ~ts[k].committed /\ ts[k].branch = branch
    THEN [err |-> HTTPError(409, "OpenTransactionAlreadyExists", "CONFLICT"), id |-> 0, txns |-> ts]
    ELSE [err |-> NoIOErr, id |-> Len(ts) + 1,
          txns |-> Append(ts, [id |-> Len(ts) + 1, branch |-> branch,
                               committed |-> FALSE, files |-> {}])]

\* handleListTransactions: every transaction of the dataset, newest first,
\* cut to the requested page size.
handleListTransactions(ts, pageSize) ==
    LET all == [k \in 1..Len(ts) |->
                  [rid |-> ts[Len(ts) + 1 - k].id,
                   status |-> IF ts[Len(ts) + 1 - k].committed THEN "COMMITTED" ELSE "OPEN"]]
    IN  IF pageSize > 0 /\ pageSize < Len(all)
        THEN [data |-> SubSeq(all, 1, pageSize), nextPageToken |-> "next"]
        ELSE [data |-> all, nextPageToken |-> ""]

\* handleUpload.
handleUpload(ts, id, path) ==
    IF TxnIndex(ts, id) = {}
    THEN [err |-> HTTPError(404, "TransactionNotFound", "NOT_FOUND"), txns |-> ts]
    ELSE LET k == CHOOSE k \in TxnIndex(ts, id) : TRUE
         IN  IF ts[k].committed
             THEN [err |-> HTTPError(400, "TransactionNotOpen", "INVALID_ARGUMENT"), txns |-> ts]
             ELSE [err |-> NoIOErr, txns |-> [ts EXCEPT ![k].files = @ \cup {path}]]

\* handleCommit.
handleCommit(ts, id) ==
    IF TxnIndex(ts, id) = {}
    THEN [err |-> HTTPError(404, "TransactionNotFound", "NOT_FOUND"), txns |-> ts]
    ELSE LET k == CHOOSE k \in TxnIndex(ts, id) : TRUE
         IN  IF ts[k].committed
             THEN [err |-> HTTPError(400, "TransactionNotOpen", "INVALID_ARGUMENT"), txns |-> ts]
             ELSE IF Cardinality(ts[k].files) /= 1
             THEN [err |-> HTTPError(400, "Conjure:InvalidArgument", "INVALID_ARGUMENT"), txns |-> ts]
             ELSE [err |-> NoIOErr, txns |-> [ts EXCEPT ![k].committed = TRUE]]

----------------------------------------------------------------------------
(* pkg/pipeline/io/foundry/io.go and the client's FindLatestOpenTransaction. *)

\* FindLatestOpenTransaction: the first OPEN entry of the listing, at most
\* ListMaxPages pages of ListPageSize entries (the emulator serves the same
\* first page for every page token).
FirstOpenFromOldest(data) ==
    IF \E k \in 1..Len(data) : data[k].status = "OPEN" /\ data[k].rid /= 0
    THEN data[CHOOSE k \in 1..Len(data) :
                 /\ data[k].status = "OPEN" /\ data[k].rid /= 0
                 /\ \A j \in (k + 1)..Len(data) : ~(data[j].status = "OPEN" /\ data[j].rid /= 0)].rid
    ELSE 0

FirstOpen(data) ==
    IF \E k \in 1..Len(data) : data[k].status = "OPEN" /\ data[k].rid /= 0
    THEN data[CHOOSE k \in 1..Len(data) :
                 /\ data[k].status = "OPEN" /\ data[k].rid /= 0
                 /\ \A j \in 1..(k - 1) : ~(data[j].status = "OPEN" /\ data[j].rid /= 0)].rid
    ELSE 0

RECURSIVE FindInPages(_, _)
FindInPages(ts, i) ==
    LET page == handleListTransactions(ts, ListPageSize)
    IN  IF i >= ListMaxPages THEN [id |-> 0, ok |-> FALSE]
        ELSE IF FirstOpen(page.data) /= 0 THEN [id |-> FirstOpen(page.data), ok |-> TRUE]
        ELSE IF page.nextPageToken = "" THEN [id |-> 0, ok |-> FALSE]
        ELSE FindInPages(ts, i + 1)

FindLatestOpenTransaction(ts) == FindInPages(ts, 0)

\* isOpenTransactionAlreadyExists.
isOpenTransactionAlreadyExists(err) ==
    /\ err.kind = "http"
    /\ err.status = 409
    /\ (err.name = "OpenTransactionAlreadyExists" \/ err.code = "CONFLICT")

\* io.go isTransient.
foundryioIsTransient(err) ==
    CASE err.kind = "nil" -> FALSE
      [] err.kind = "http" -> err.status = 429 \/ err.status \div 100 = 5
      [] err.kind \in {"deadline", "nettimeout", "connreset", "connrefused"} -> TRUE
      [] OTHER -> FALSE

\* retryTransient, lines 176-183: what the loop does with the result of attempt i.
retryTransientAnyFailure(err, i, tries) ==
    IF err = NoIOErr THEN "ok"
    ELSE IF i = tries - 1 THEN "return"
    ELSE "sleep"

retryTransient(err, i, tries) ==
    IF err = NoIOErr THEN "ok"
    ELSE IF ~foundryioIsTransient(err) \/ i = tries - 1 THEN "return"
    ELSE "sleep"

\* What the client sees of one request, and what the platform did with it:
\* the request is served; it fails before the platform acts (a 503, a 403);
\* or the platform acts and the response is lost (a connection reset).
Exchange(served, fault) ==
    CASE fault = "none" -> served
      [] fault = "unavailable" -> [served EXCEPT !.err = HTTPError(503, "", ""), !.txns = txns]
      [] fault = "denied" -> [served EXCEPT !.err = HTTPError(403, "", "PERMISSION_DENIED"), !.txns = txns]
      [] fault = "lost" -> [served EXCEPT !.err = [kind |-> "connreset", status |-> 0, name |-> "", code |-> ""]]
      [] fault = "canceled" -> [served EXCEPT !.err = CtxCanceled, !.txns = txns]

\* A request made with a cancelled ctx may also fail with the context's error.
Faults == {"none", "unavailable", "denied", "lost"} \cup (IF ctxCancelled THEN {"canceled"} ELSE {})

\* UploadDatasetCSV, lines 124-137: what follows the upload.
afterUploadAlwaysCommits(step, created) ==
    CASE step = "ok" -> "commit"
      [] step = "return" -> "fail"
      [] OTHER -> "sleep"

afterUploadIgnoresError(step, created) ==
    CASE step = "ok" /\ created -> "commit"
      [] step = "ok" /\ ~created -> "finish"
      [] step = "return" /\ created -> "commit"
      [] step = "return" /\ ~created -> "finish"
      [] OTHER -> "sleep"

\* lines 116-122: what follows one attempt of the listing.
afterListUploadsRegardless(step, found) ==
    IF step = "ok" THEN "upload"
    ELSE IF step = "return" THEN "fail"
    ELSE "sleep"

afterList(step, found) ==
    IF step = "ok" /\ found.ok /\ found.id /= 0 THEN "upload"
    ELSE IF step = "ok" THEN "none"
    ELSE IF step = "return" THEN "fail"
    ELSE "sleep"

afterUpload(step, created) ==
    CASE step = "ok" /\ created -> "commit"
      [] step = "ok" /\ ~created -> "finish"
      [] step = "return" -> "fail"
      [] OTHER -> "sleep"

Return(err) ==
    /\ upc' = "returned"
    /\ uret' = err
    /\ ui' = 0
    /\ usleep' = FALSE

Proceed(pc) ==
    /\ upc' = pc
    /\ ui' = 0
    /\ usleep' = FALSE
    /\ uret' = uret

Backoff ==
    /\ usleep' = TRUE
    /\ UNCHANGED <<upc, ui, uret>>

\* lines 99-108: client.CreateTransaction under retryTransient.
UCreate ==
    /\ upc = "create" /\ ~usleep
    /\ \E fault \in Faults :
         LET x == Exchange(handleCreateTransaction(txns, "master"), fault)
             step == retryTransient(x.err, ui, RetryAttempts)
         IN  /\ txns' = x.txns
             /\ CASE step = "ok" ->
                       /\ txnID' = x.id
                       /\ createdTxn' = TRUE
                       /\ ulog' = [ulog EXCEPT !.created = x.id, !.last = x.err, !.tries = ui + 1]
                       /\ Proceed("upload")
                  [] step = "return" /\ isOpenTransactionAlreadyExists(x.err) ->
                       /\ createdTxn' = FALSE
                       /\ ulog' = [ulog EXCEPT !.conflict = TRUE, !.last = x.err, !.tries = ui + 1]
                       /\ Proceed("list")
                       /\ UNCHANGED txnID
                  [] step = "return" /\ ~isOpenTransactionAlreadyExists(x.err) ->
                       /\ Return(x.err)
                       /\ ulog' = [ulog EXCEPT !.last = x.err, !.tries = ui + 1]
                       /\ UNCHANGED <<txnID, createdTxn>>
                  [] OTHER ->
                       /\ Backoff
                       /\ ulog' = [ulog EXCEPT !.last = x.err, !.tries = ui + 1]
                       /\ UNCHANGED <<txnID, createdTxn>>
    /\ UNCHANGED <<ctxCancelled>>

\* lines 110-121: client.FindLatestOpenTransaction under retryTransient.
UList ==
    /\ upc = "list" /\ ~usleep
    /\ \E fault \in Faults \ {"lost"} :
         LET found == FindLatestOpenTransaction(txns)
             x == Exchange([err |-> NoIOErr, txns |-> txns], fault)
             step == retryTransient(x.err, ui, RetryAttempts)
         IN  /\ ulog' = [ulog EXCEPT !.last = x.err, !.tries = ui + 1,
                                     !.listed = IF step /= "ok" THEN @
                                                ELSE IF found.ok /\ found.id /= 0 THEN "open"
                                                ELSE "none"]
             /\ CASE afterList(step, found) = "upload" ->
                       /\ txnID' = found.id
                       /\ Proceed("upload")
                  [] afterList(step, found) = "none" ->
                       /\ Return(NoOpenTxnErr)
                       /\ UNCHANGED txnID
                  [] afterList(step, found) = "fail" ->
                       /\ Return(x.err)
                       /\ UNCHANGED txnID
                  [] OTHER ->
                       /\ Backoff
                       /\ UNCHANGED txnID
    /\ UNCHANGED <<txns, createdTxn, ctxCancelled>>

\* lines 124-128: client.UploadFile under retryTransient.
UUpload ==
    /\ upc = "upload" /\ ~usleep
    /\ \E fault \in Faults :
         LET x == Exchange(handleUpload(txns, txnID, "enriched.csv"), fault)
             step == retryTransient(x.err, ui, RetryAttempts)
         IN  /\ txns' = x.txns
             /\ ulog' = [ulog EXCEPT !.upTargets = @ \cup {txnID},
                                     !.upCalls = @ + 1,
                                     !.upOK = IF x.err = NoIOErr THEN @ + 1 ELSE @,
                                     !.last = x.err, !.tries = ui + 1]
             /\ CASE afterUpload(step, createdTxn) = "commit" -> Proceed("commit")
                  [] afterUpload(step, createdTxn) = "finish" -> Return(NoIOErr)
                  [] afterUpload(step, createdTxn) = "fail" -> Return(x.err)
                  [] OTHER -> Backoff
    /\ UNCHANGED <<txnID, createdTxn, ctxCancelled>>

\* lines 130-137: client.CommitTransaction under retryTransient.
UCommit ==
    /\ upc = "commit" /\ ~usleep
    /\ \E fault \in Faults :
         LET x == Exchange(handleCommit(txns, txnID), fault)
             step == retryTransient(x.err, ui, RetryAttempts)
         IN  /\ txns' = x.txns
             /\ ulog' = [ulog EXCEPT !.cmTargets = @ \cup {txnID},
                                     !.cmCalls = @ + 1,
                                     !.cmOK = IF x.err = NoIOErr THEN @ + 1 ELSE @,
                                     !.cmEarly = @ \/ ulog.upOK = 0,
                                     !.last = x.err, !.tries = ui + 1]
             /\ CASE step = "ok" -> Return(NoIOErr)
                  [] step = "return" -> Return(x.err)
                  [] OTHER -> Backoff
    /\ UNCHANGED <<txnID, createdTxn, ctxCancelled>>

\* retryTransient, lines 185-195: the backoff timer fires.
UWake ==
    /\ usleep
    /\ usleep' = FALSE
    /\ ui' = ui + 1
    /\ UNCHANGED <<txns, upc, txnID, createdTxn, uret, ulog, ctxCancelled>>

\* retryTransient, lines 187-189: `<-ctx.Done()` during the backoff sleep.
USleepCancelled ==
    /\ usleep
    /\ ctxCancelled
    /\ Return(CtxCanceled)
    /\ UNCHANGED <<txns, txnID, createdTxn, ulog, ctxCancelled>>

\* The caller cancels ctx while the write is in progress.
UCallerCancel ==
    /\ ~ctxCancelled
    /\ upc /= "returned"
    /\ ctxCancelled' = TRUE
    /\ UNCHANGED <<uploadVars, appVars, timer, srv>>

\* Another client of the platform completes a transaction the run did not
\* receive from CreateTransaction: it uploads its file, unless the
\* transaction holds one, and commits (handleUpload, handleCommit).
OtherWriterCommits ==
    /\ upc /= "returned"
    /\ \E k \in 1..Len(txns) :
          /\ ~txns[k].committed
          /\ txns[k].id /= ulog.created
          /\ LET up == IF txns[k].files = {} THEN handleUpload(txns, txns[k].id, "other.csv")
                       ELSE [err |-> NoIOErr, txns |-> txns]
                 cm == handleCommit(up.txns, txns[k].id)
             IN  /\ up.err = NoIOErr
                 /\ cm.err = NoIOErr
                 /\ txns' = cm.txns
    /\ UNCHANGED <<upc, ui, usleep, txnID, createdTxn, uret, ulog, ctxCancelled>>

\* The output dataset before the run: at most one open transaction per branch.
PreTxns ==
    {ts \in UNION {[1..n -> [branch : {"master", "dev"}, committed : BOOLEAN]] : n \in 0..MaxPreTxns} :
       \A j, k \in 1..Len(ts) :
          (j /= k /\ ~ts[j].committed /\ ~ts[k].committed) => ts[j].branch /= ts[k].branch}

NoLog == [created |-> 0, conflict |-> FALSE, listed |-> "",
          upTargets |-> {}, upCalls |-> 0, upOK |-> 0,
          cmTargets |-> {}, cmCalls |-> 0, cmOK |-> 0, cmEarly |-> FALSE,
          last |-> NoIOErr, tries |-> 0]

UploadIdle ==
    /\ txns = <<>>
    /\ upc = "idle"
    /\ ui = 0
    /\ usleep = FALSE
    /\ txnID = 0
    /\ createdTxn = TRUE
    /\ uret = NoIOErr
    /\ ulog = NoLog


----------------------------------------------------------------------------
(* The application: RunFoundry (internal/app), run after run against the   *)
(* same destination. EnrichEmails and EnrichEmailsStream are followed one  *)
(* item at a time through emailProcessor and the retry decision of         *)
(* processWithRetry; the write step ends in one of the outcomes of         *)
(* UploadDatasetCSV.                                                       *)

MaxRuns == 3
MaxInput == 2
AppMaxRetries == 1
MaxPriorRows == 2
MaxGlitches == 1

InputRaws == {<<"a">>, <<" ", "a">>, <<"b">>, <<" ">>}
Emails == {TrimSpace(r) : r \in InputRaws}

ZeroRow == [email |-> <<>>, status |-> "", error |-> ""]

(* pipeline.Header, WriteCSV and ReadCSV: a file is its header record      *)
(* followed by one record per row; ReadCSV finds the columns by name.      *)
Header == <<"email", "status", "error">>

WriteCSV(rows) ==
    <<Header>> \o [i \in 1..Len(rows) |-> <<rows[i].email, rows[i].status, rows[i].error>>]

ColumnIndex(header, name) == CHOOSE k \in 1..Len(header) : header[k] = name

ReadCSV(file) ==
    [i \in 1..(Len(file) - 1) |->
        [email |-> file[i + 1][ColumnIndex(file[1], "email")],
         status |-> file[i + 1][ColumnIndex(file[1], "status")],
         error |-> file[i + 1][ColumnIndex(file[1], "error")]]]

(* ReadCSV, lines 44-56: the header can be read and holds every required column. *)
parsesCSV(file) ==
    /\ file /= <<>>
    /\ \A n \in 1..Len(Header) : \E k \in 1..Len(file[1]) : file[1][k] = Header[n]

emailKey(email) == TrimSpace(email)

(* The platform's readTable for the output dataset: the last committed     *)
(* snapshot, a 404 when there is none, or the failure of the request.      *)
ReadTableCSV(snapshot, fault) ==
    CASE fault = "denied" -> [err |-> HTTPError(403, "", "PERMISSION_DENIED"), body |-> <<>>]
      [] fault = "unavailable" -> [err |-> HTTPError(503, "", ""), body |-> <<>>]
      [] OTHER -> IF snapshot.exists
                  THEN [err |-> NoIOErr, body |-> snapshot.file]
                  ELSE [err |-> HTTPError(404, "", "NOT_FOUND"), body |-> <<>>]

isNotFoundError(err) == err.kind = "http" /\ err.status = 404

ParseErr == [kind |-> "other", status |-> 0, name |-> "parse prior output csv", code |-> ""]

(* readExistingOutputRows: a 404 gives the empty map, any other error of   *)
(* the read and a file that does not parse are returned; the last row of a *)
(* key wins and rows with an empty key are skipped.                        *)
existingRowsAbsorbDenied(resp) ==
    IF resp.err /= NoIOErr
    THEN IF isNotFoundError(resp.err) \/ (resp.err.kind = "http" /\ resp.err.status = 403)
         THEN [err |-> NoIOErr, rows |-> [key \in {} |-> ZeroRow]]
         ELSE [err |-> resp.err, rows |-> [key \in {} |-> ZeroRow]]
    ELSE IF ~parsesCSV(resp.body)
    THEN [err |-> ParseErr, rows |-> [key \in {} |-> ZeroRow]]
    ELSE LET rows == ReadCSV(resp.body)
             keys == {emailKey(rows[i].email) : i \in 1..Len(rows)} \ {<<>>}
             last(key) == CHOOSE i \in 1..Len(rows) :
                             /\ emailKey(rows[i].email) = key
                             /\ \A j \in 1..Len(rows) : emailKey(rows[j].email) = key => j <= i
         IN  [err |-> NoIOErr, rows |-> [key \in keys |-> rows[last(key)]]]

readExistingOutputRows(resp) ==
    IF resp.err /= NoIOErr
    THEN IF isNotFoundError(resp.err)
         THEN [err |-> NoIOErr, rows |-> [key \in {} |-> ZeroRow]]
         ELSE [err |-> resp.err, rows |-> [key \in {} |-> ZeroRow]]
    ELSE IF ~parsesCSV(resp.body)
    THEN [err |-> ParseErr, rows |-> [key \in {} |-> ZeroRow]]
    ELSE LET rows == ReadCSV(resp.body)
             keys == {emailKey(rows[i].email) : i \in 1..Len(rows)} \ {<<>>}
             last(key) == CHOOSE i \in 1..Len(rows) :
                             /\ emailKey(rows[i].email) = key
                             /\ \A j \in 1..Len(rows) : emailKey(rows[j].email) = key => j <= i
         IN  [err |-> NoIOErr, rows |-> [key \in keys |-> rows[last(key)]]]

(* strings.EqualFold(strings.TrimSpace(status), "ok"), on the status values *)
(* a snapshot may hold.                                                     *)
StatusValues == {"ok", "OK", " ok ", "error", ""}

isStatusOK(status) == status \in {"ok", "OK", " ok "}

(* buildIncrementalPlan, line 427: the prior row of the key is reused. *)
cacheHitNever(existingByEmail, key) ==
    FALSE

cacheHitAnyStatus(existingByEmail, key) ==
    key \in DOMAIN existingByEmail

cacheHit(existingByEmail, key) ==
    key \in DOMAIN existingByEmail /\ isStatusOK(existingByEmail[key].status)

(* lines 428-429: `prev.Email = email; plan.rows[i] = prev`. *)
reusedRowStatusOnly(prev, email) ==
    [email |-> email, status |-> prev.status, error |-> ""]

reusedRow(prev, email) ==
    [prev EXCEPT !.email = email]

(* lines 434-436: an identifier joins pendingEmails when its key is first seen. *)
enrolPendingAlways(pendingEmails, seen, email) ==
    Append(pendingEmails, email)

enrolPending(pendingEmails, seen, email) ==
    IF seen THEN pendingEmails ELSE Append(pendingEmails, email)

NoPlan == [rows |-> <<>>, pendingEmails |-> <<>>, pendingIdx |-> [key \in {} |-> <<>>]]

(* The loop of buildIncrementalPlan from input position i on. *)
RECURSIVE planFrom(_, _, _, _)
planFrom(inputEmails, existingByEmail, i, plan) ==
    IF i > Len(inputEmails)
    THEN plan
    ELSE LET email == TrimSpace(inputEmails[i])
             key == emailKey(email)
             idx == plan.pendingIdx
         IN  IF cacheHit(existingByEmail, key)
             THEN planFrom(inputEmails, existingByEmail, i + 1,
                      [plan EXCEPT !.rows[i] = reusedRow(existingByEmail[key], email)])
             ELSE planFrom(inputEmails, existingByEmail, i + 1,
                      [plan EXCEPT
                         !.pendingEmails = enrolPending(@, key \in DOMAIN idx, email),
                         !.pendingIdx = [k \in DOMAIN idx \cup {key} |->
                                           IF k /= key THEN idx[k]
                                           ELSE IF key \in DOMAIN idx THEN Append(idx[key], i)
                                           ELSE <<i>>]])

buildIncrementalPlan(inputEmails, existingByEmail) ==
    planFrom(inputEmails, existingByEmail, 1,
             [NoPlan EXCEPT !.rows = [i \in 1..Len(inputEmails) |-> ZeroRow]])

(* applyEnrichedRows: row i of the fresh rows goes to every input position *)
(* of pending identifier i.                                                *)
applyEnrichedRowsFirstIndexOnly(plan, rows) ==
    IF Len(rows) /= Len(plan.pendingEmails)
    THEN [ok |-> FALSE, rows |-> plan.rows]
    ELSE [ok |-> TRUE,
          rows |-> [idx \in 1..Len(plan.rows) |->
                      IF \E i \in 1..Len(plan.pendingEmails) :
                            idx = plan.pendingIdx[emailKey(plan.pendingEmails[i])][1]
                      THEN LET i == CHOOSE i \in 1..Len(plan.pendingEmails) :
                                       idx = plan.pendingIdx[emailKey(plan.pendingEmails[i])][1]
                           IN  [rows[i] EXCEPT !.email = TrimSpace(plan.pendingEmails[i])]
                      ELSE plan.rows[idx]]]

applyEnrichedRowsUnchecked(plan, rows) ==
    [ok |-> TRUE,
     rows |-> [idx \in 1..Len(plan.rows) |->
                 IF \E i \in 1..Len(plan.pendingEmails) :
                       \E n \in DOMAIN plan.pendingIdx[emailKey(plan.pendingEmails[i])] :
                          plan.pendingIdx[emailKey(plan.pendingEmails[i])][n] = idx
                 THEN LET i == CHOOSE i \in 1..Len(plan.pendingEmails) :
                                  \E n \in DOMAIN plan.pendingIdx[emailKey(plan.pendingEmails[i])] :
                                     plan.pendingIdx[emailKey(plan.pendingEmails[i])][n] = idx
                      IN  IF i <= Len(rows)
                          THEN [rows[i] EXCEPT !.email = TrimSpace(plan.pendingEmails[i])]
                          ELSE ZeroRow
                 ELSE plan.rows[idx]]]

applyEnrichedRows(plan, rows) ==
    IF Len(rows) /= Len(plan.pendingEmails)
    THEN [ok |-> FALSE, rows |-> plan.rows]
    ELSE [ok |-> TRUE,
          rows |-> [idx \in 1..Len(plan.rows) |->
                      IF \E i \in 1..Len(plan.pendingEmails) :
                            \E n \in DOMAIN plan.pendingIdx[emailKey(plan.pendingEmails[i])] :
                               plan.pendingIdx[emailKey(plan.pendingEmails[i])][n] = idx
                      THEN LET i == CHOOSE i \in 1..Len(plan.pendingEmails) :
                                       \E n \in DOMAIN plan.pendingIdx[emailKey(plan.pendingEmails[i])] :
                                          plan.pendingIdx[emailKey(plan.pendingEmails[i])][n] = idx
                           IN  [rows[i] EXCEPT !.email = TrimSpace(plan.pendingEmails[i])]
                      ELSE plan.rows[idx]]]

(* rowToStreamRecord: empty values become null. *)
rowToStreamRecord(row) ==
    [email |-> row.email,
     status |-> IF row.status = "" THEN "null" ELSE row.status,
     error |-> IF row.error = "" THEN "null" ELSE row.error]

(* The item the pool processes for an identifier, with the Enricher's *)
(* behaviour for it.                                                  *)
EmailItem(k, raw) ==
    [id |-> k, cap |-> 0, raw |-> raw,
     kind |-> IF TrimSpace(raw) = <<>> THEN "good" ELSE cfg.behav[TrimSpace(raw)]]

NewRun(input) ==
    [pc |-> "start", input |-> input, probe |-> 0, sink |-> "", i |-> 0,
     resp |-> [err |-> NoIOErr, body |-> <<>>],
     existing |-> [key \in {} |-> ZeroRow], plan |-> NoPlan,
     k |-> 1, attempt |-> 0, fresh |-> <<>>, cur |-> ZeroRow, failing |-> FALSE,
     rows |-> <<>>, wrote |-> "no", ret |-> "", err |-> NoIOErr]

ReturnErr(err) == [run EXCEPT !.pc = "returned", !.ret = "error", !.err = err, !.i = 0]

EnrichErr == [kind |-> "enrich", status |-> 0, name |-> "", code |-> ""]
MismatchErr == [kind |-> "other", status |-> 0, name |-> "incremental enrichment mismatch", code |-> ""]
UploadErr == [kind |-> "other", status |-> 0, name |-> "upload", code |-> ""]

NoCalls == [e \in Emails |-> 0]

(* What the platform does to one request: it serves it, refuses it (403),  *)
(* or, while it has glitches left, answers 503.                            *)
CallFaults == {"none", "denied"} \cup (IF hist.glitches > 0 THEN {"unavailable"} ELSE {})

FaultErr(fault) ==
    CASE fault = "denied" -> HTTPError(403, "", "PERMISSION_DENIED")
      [] fault = "unavailable" -> HTTPError(503, "", "")
      [] OTHER -> NoIOErr

Glitch(fault) ==
    [hist EXCEPT !.glitches = IF fault = "unavailable" THEN @ - 1 ELSE @]

(* The stream-proxy's answer to the probe, and ProbeStream (part_017). *)
ProbeStatus(stream, fault) ==
    CASE fault = "denied" -> 403
      [] fault = "unavailable" -> 503
      [] OTHER -> IF stream THEN 200 ELSE 404

ProbeStreamRefusalIsNotFound(status) ==
    IF status \in {403, 404} THEN [isStream |-> FALSE, err |-> NoIOErr]
    ELSE IF status \div 100 /= 2 THEN [isStream |-> FALSE, err |-> HTTPError(status, "", "")]
    ELSE [isStream |-> TRUE, err |-> NoIOErr]

ProbeStream(status) ==
    IF status = 404 THEN [isStream |-> FALSE, err |-> NoIOErr]
    ELSE IF status \div 100 /= 2 THEN [isStream |-> FALSE, err |-> HTTPError(status, "", "")]
    ELSE [isStream |-> TRUE, err |-> NoIOErr]

(* ResolveOutputMode: only auto asks the platform. *)
modeNeedsProbeAlways(mode) == TRUE

modeNeedsProbe(mode) == mode = "auto"

(* lines 135 and 199: the stream branch enriches at once, the snapshot *)
(* branch first reads the prior output.                               *)
branchSkipsCacheRead(useStream) == IF useStream THEN "stream" ELSE "plan"

branch(useStream) == IF useStream THEN "stream" ELSE "existing"

\* lines 117-120: ReadInputEmails, one attempt of retryTransient.
RunStart ==
    /\ run.pc = "start"
    /\ \E fault \in CallFaults :
          LET step == retryTransient(FaultErr(fault), run.i, RetryAttempts)
          IN  /\ run' = CASE step = "ok" -> [run EXCEPT !.pc = "mode", !.i = 0]
                          [] step = "return" -> ReturnErr(FaultErr(fault))
                          [] OTHER -> [run EXCEPT !.i = @ + 1]
              /\ hist' = Glitch(fault)
    /\ UNCHANGED <<cfg, dest>>

\* lines 124-133: ResolveOutputMode; in auto mode one attempt of the probe
\* under retryTransient.
RunResolveMode ==
    /\ run.pc = "mode"
    /\ IF modeNeedsProbe(cfg.mode)
       THEN \E fault \in CallFaults :
               LET status == ProbeStatus(cfg.stream, fault)
                   probe == ProbeStream(status)
                   step == retryTransient(probe.err, run.i, RetryAttempts)
               IN  /\ run' = CASE step = "ok" ->
                                    [run EXCEPT !.i = 0, !.probe = status,
                                                !.sink = IF probe.isStream THEN "stream" ELSE "dataset",
                                                !.pc = branch(probe.isStream)]
                               [] step = "return" -> [ReturnErr(probe.err) EXCEPT !.probe = status]
                               [] OTHER -> [run EXCEPT !.i = @ + 1, !.probe = status]
                   /\ hist' = Glitch(fault)
       ELSE /\ run' = [run EXCEPT !.sink = cfg.mode,
                                  !.pc = branch(cfg.mode = "stream")]
            /\ UNCHANGED hist
    /\ UNCHANGED <<cfg, dest>>

\* lines 199-202: readExistingOutputRows; the read is issued once.
RunReadExisting ==
    /\ run.pc = "existing"
    /\ \E fault \in CallFaults :
          LET resp == ReadTableCSV(dest.snapshot, fault)
              existing == readExistingOutputRows(resp)
          IN  /\ run' = IF existing.err /= NoIOErr
                        THEN [ReturnErr(existing.err) EXCEPT !.resp = resp]
                        ELSE [run EXCEPT !.pc = "plan", !.resp = resp,
                                         !.existing = existing.rows]
              /\ hist' = Glitch(fault)
    /\ UNCHANGED <<cfg, dest>>

\* lines 203-211: buildIncrementalPlan.
RunPlan ==
    /\ run.pc = "plan"
    /\ LET plan == buildIncrementalPlan(run.input, run.existing)
       IN  run' = [run EXCEPT !.plan = plan,
                              !.pc = IF Len(plan.pendingEmails) > 0 THEN "enrich" ELSE "write"]
    /\ UNCHANGED <<cfg, dest, hist>>

\* line 212: EnrichEmails over the pending identifiers, one attempt of one
\* item; a cancelled context ends the call with an error.
RunEnrich ==
    /\ run.pc = "enrich"
    /\ LET item == EmailItem(run.k, run.plan.pendingEmails[run.k])
           p == emailProcessor(item, run.attempt)
           res == [input |-> item, output |-> "o", err |-> p.err]
       IN  \E outcome \in {"invoked", "canceled"} :
              IF outcome = "canceled"
              THEN run' = ReturnErr(CtxCanceled) /\ UNCHANGED hist
              ELSE /\ hist' = [hist EXCEPT !.calls[TrimSpace(item.raw)] =
                                             IF p.enrich THEN @ + 1 ELSE @]
                   /\ run' = IF p.err /= NoErr /\ ~isFinalFailure(p.err, run.attempt, cfg.maxRetries)
                             THEN [run EXCEPT !.attempt = @ + 1]
                             ELSE IF shouldFail(p.err, cfg.policy)
                             THEN ReturnErr(EnrichErr)
                             ELSE [run EXCEPT !.fresh = Append(@, rowFromWorkerResult(res)),
                                              !.attempt = 0,
                                              !.k = @ + 1,
                                              !.pc = IF run.k = Len(run.plan.pendingEmails)
                                                     THEN "apply" ELSE "enrich"]
    /\ UNCHANGED <<cfg, dest>>

\* lines 216-218: applyEnrichedRows.
RunApply ==
    /\ run.pc = "apply"
    /\ LET r == applyEnrichedRows(run.plan, run.fresh)
       IN  run' = IF r.ok THEN [run EXCEPT !.plan.rows = r.rows, !.pc = "write"]
                  ELSE ReturnErr(MismatchErr)
    /\ UNCHANGED <<cfg, dest, hist>>

\* lines 220-243: WriteCSV and UploadDatasetCSV, which commits the file, leaves
\* it in another writer's open transaction, or fails.
RunUpload ==
    /\ run.pc = "write"
    /\ \E outcome \in {"committed", "uploaded", "failed"} :
          /\ run' = [run EXCEPT !.pc = "returned", !.rows = run.plan.rows, !.wrote = outcome,
                                !.ret = IF outcome = "failed" THEN "error" ELSE "nil",
                                !.err = IF outcome = "failed" THEN UploadErr ELSE NoIOErr]
          /\ dest' = IF outcome = "committed"
                     THEN [dest EXCEPT !.snapshot = [exists |-> TRUE, file |-> WriteCSV(run.plan.rows)]]
                     ELSE dest
    /\ UNCHANGED <<cfg, hist>>

\* lines 135-148: EnrichEmailsStream over the input, one attempt of one item.
RunStreamEnrich ==
    /\ run.pc = "stream"
    /\ LET item == EmailItem(run.k, run.input[run.k])
           p == emailProcessor(item, run.attempt)
           res == [input |-> item, output |-> "o", err |-> p.err]
       IN  \E outcome \in {"invoked", "canceled"} :
              IF outcome = "canceled"
              THEN run' = ReturnErr(CtxCanceled) /\ UNCHANGED hist
              ELSE /\ hist' = [hist EXCEPT !.calls[TrimSpace(item.raw)] =
                                             IF p.enrich THEN @ + 1 ELSE @]
                   /\ run' = IF p.err /= NoErr /\ ~isFinalFailure(p.err, run.attempt, cfg.maxRetries)
                             THEN [run EXCEPT !.attempt = @ + 1]
                             ELSE [run EXCEPT !.cur = rowFromWorkerResult(res),
                                              !.failing = shouldFail(p.err, cfg.policy),
                                              !.attempt = 0,
                                              !.pc = "publish"]
    /\ UNCHANGED <<cfg, dest>>

\* lines 148-180: the row callback publishes the record, one attempt of
\* PublishJSONRecord's retryTransient; lines 181-196.
RunPublish ==
    /\ run.pc = "publish"
    /\ \E fault \in CallFaults :
          LET step == retryTransient(FaultErr(fault), run.i, RetryAttempts)
          IN  CASE step = "ok" ->
                     /\ dest' = [dest EXCEPT !.records = Append(@, rowToStreamRecord(run.cur))]
                     /\ hist' = [hist EXCEPT !.pubs[run.k] = @ + 1]
                     /\ run' = IF run.failing THEN ReturnErr(EnrichErr)
                               ELSE IF run.k = Len(run.input)
                               THEN [run EXCEPT !.pc = "returned", !.ret = "nil", !.i = 0]
                               ELSE [run EXCEPT !.pc = "stream", !.k = @ + 1, !.i = 0]
                [] step = "return" ->
                     /\ run' = ReturnErr(FaultErr(fault))
                     /\ hist' = Glitch(fault)
                     /\ UNCHANGED dest
                [] OTHER ->
                     /\ run' = [run EXCEPT !.i = @ + 1]
                     /\ hist' = Glitch(fault)
                     /\ UNCHANGED dest
    /\ UNCHANGED cfg

\* The module is run again: on the same input, or on the input with one
\* more identifier.
RunAgain ==
    /\ run.pc = "returned"
    /\ hist.runNo < MaxRuns
    /\ \E input \in {run.input} \cup {Append(run.input, r) : r \in InputRaws} :
          /\ run' = NewRun(input)
          /\ hist' = [runNo |-> hist.runNo + 1,
                      kind |-> IF input = run.input THEN "rerun" ELSE "added",
                      prevKind |-> hist.kind,
                      calls |-> NoCalls,
                      pubs |-> [i \in 1..Len(input) |-> 0],
                      cleanBase |-> /\ run.ret = "nil"
                                    /\ run.wrote = "committed"
                                    /\ \A i \in 1..Len(run.rows) : run.rows[i].status = "ok",
                      recsBefore |-> dest.records,
                      glitches |-> hist.glitches]
    /\ UNCHANGED <<cfg, dest>>

FirstRun(input, glitches) ==
    [runNo |-> 1, kind |-> "first", prevKind |-> "none", calls |-> NoCalls,
     pubs |-> [i \in 1..Len(input) |-> 0], cleanBase |-> FALSE,
     recsBefore |-> <<>>, glitches |-> glitches]

AppIdle ==
    /\ cfg = [mode |-> "dataset", stream |-> FALSE, maxRetries |-> 0, policy |-> "partial",
              behav |-> [e \in Emails \ {<<>>} |-> "good"]]
    /\ dest = [snapshot |-> [exists |-> FALSE, file |-> <<>>], records |-> <<>>]
    /\ run = [NewRun(<<>>) EXCEPT !.pc = "idle"]
    /\ hist = [FirstRun(<<>>, 0) EXCEPT !.runNo = 0]

Inputs ==
    UNION {[1..n -> InputRaws] : n \in 1..MaxInput}

----------------------------------------------------------------------------
(* The specifications. Spec: a pool run.  UploadSpec: a snapshot write. *)

(* A snapshot write against a dataset that may hold open transactions. *)
UploadInit ==
    /\ AppIdle
    /\ TimerIdle
    /\ ServerIdle
    /\ \E pre \in PreTxns :
          txns = [k \in 1..Len(pre) |->
                    [id |-> k, branch |-> pre[k].branch, committed |-> pre[k].committed,
                     files |-> IF pre[k].committed THEN {"enriched.csv"} ELSE {}]]
    /\ upc = "create"
    /\ ui = 0
    /\ usleep = FALSE
    /\ txnID = 0
    /\ createdTxn = TRUE
    /\ uret = NoIOErr
    /\ ulog = NoLog
    /\ PoolInit(<<>>, [workers |-> 1, maxRetries |-> 0, policy |-> "partial", callback |-> "none"])

UploadNext ==
    \/ UCreate /\ UNCHANGED <<poolFrame, appVars, timer, srv>>
    \/ UList /\ UNCHANGED <<poolFrame, appVars, timer, srv>>
    \/ UUpload /\ UNCHANGED <<poolFrame, appVars, timer, srv>>
    \/ UCommit /\ UNCHANGED <<poolFrame, appVars, timer, srv>>
    \/ UWake /\ UNCHANGED <<poolFrame, appVars, timer, srv>>
    \/ USleepCancelled /\ UNCHANGED <<poolFrame, appVars, timer, srv>>
    \/ UCallerCancel /\ UNCHANGED <<poolFrame, appVars, timer, srv>>

UploadSpec == UploadInit /\ [][UploadNext]_vars

(* UploadDatasetCSV on a dataset that another client writes to at the same *)
(* time.                                                                   *)
SharedNext ==
    \/ UCreate /\ UNCHANGED <<poolFrame, appVars, timer, srv>>
    \/ UList /\ UNCHANGED <<poolFrame, appVars, timer, srv>>
    \/ UUpload /\ UNCHANGED <<poolFrame, appVars, timer, srv>>
    \/ UCommit /\ UNCHANGED <<poolFrame, appVars, timer, srv>>
    \/ UWake /\ UNCHANGED <<poolFrame, appVars, timer, srv>>
    \/ USleepCancelled /\ UNCHANGED <<poolFrame, appVars, timer, srv>>
    \/ UCallerCancel /\ UNCHANGED <<poolFrame, appVars, timer, srv>>
    \/ OtherWriterCommits /\ UNCHANGED <<poolFrame, appVars, timer, srv>>

SharedSpec == UploadInit /\ [][SharedNext]_vars

Init ==
    /\ UploadIdle
    /\ TimerIdle
    /\ ServerIdle
    /\ AppIdle
    /\ \E its \in ItemSeqs({"good", "perm", "trans"}, {0}, MaxItems),
       wk \in 1..MaxWorkers,
       mr \in 0..MaxRetriesCfg,
       pol \in {"partial", "failfast"},
       cb \in {"none", "mayfail"} :
         PoolInit(its, [workers |-> wk, maxRetries |-> mr, policy |-> pol, callback |-> cb])

Next ==
    \/ \E w \in Workers : WorkerRecv(w) /\ UNCHANGED <<uploadVars, appVars, timer, srv>>
    \/ ProducerClose /\ UNCHANGED <<uploadVars, appVars, timer, srv>>
    \/ \E w \in Workers : WorkerJobsClosed(w) /\ UNCHANGED <<uploadVars, appVars, timer, srv>>
    \/ \E w \in Workers : WorkerCheck(w) /\ UNCHANGED <<uploadVars, appVars, timer, srv>>
    \/ \E w \in Workers : WorkerLoop(w) /\ UNCHANGED <<uploadVars, appVars, timer, srv>>
    \/ \E w \in Workers : WorkerInvoke(w) /\ UNCHANGED <<uploadVars, appVars, timer, srv>>
    \/ \E w \in Workers : WorkerReturn(w) /\ UNCHANGED <<uploadVars, appVars, timer, srv>>
    \/ \E w \in Workers : WorkerWake(w) /\ UNCHANGED <<uploadVars, appVars, timer, srv>>
    \/ \E w \in Workers : WorkerSleepCancelled(w) /\ UNCHANGED <<uploadVars, appVars, timer, srv>>
    \/ \E w \in Workers : WorkerSend(w) /\ UNCHANGED <<uploadVars, appVars, timer, srv>>
    \/ \E w \in Workers : WorkerAbandon(w) /\ UNCHANGED <<uploadVars, appVars, timer, srv>>
    \/ \E w \in Workers : WorkerFail(w) /\ UNCHANGED <<uploadVars, appVars, timer, srv>>
    \/ CloserClose /\ UNCHANGED <<uploadVars, appVars, timer, srv>>
    \/ MainRecv /\ UNCHANGED <<uploadVars, appVars, timer, srv>>
    \/ CallbackReturn /\ UNCHANGED <<uploadVars, appVars, timer, srv>>
    \/ MainReturn /\ UNCHANGED <<uploadVars, appVars, timer, srv>>
    \/ CallerCancel /\ UNCHANGED <<uploadVars, appVars, timer, srv>>

Spec == Init /\ [][Next]_vars

(* The same runs under fair scheduling: while a goroutine of the run can   *)
(* take a step, some step of the run is taken. The processor and the       *)
(* callback return (WorkerReturn, CallbackReturn are steps of the run); the *)
(* caller is never obliged to cancel.                                      *)
Progress ==
    \/ \E w \in Workers : WorkerRecv(w)
    \/ ProducerClose
    \/ \E w \in Workers : WorkerJobsClosed(w)
    \/ \E w \in Workers : WorkerCheck(w)
    \/ \E w \in Workers : WorkerLoop(w)
    \/ \E w \in Workers : WorkerInvoke(w)
    \/ \E w \in Workers : WorkerReturn(w)
    \/ \E w \in Workers : WorkerWake(w)
    \/ \E w \in Workers : WorkerSleepCancelled(w)
    \/ \E w \in Workers : WorkerSend(w)
    \/ \E w \in Workers : WorkerAbandon(w)
    \/ \E w \in Workers : WorkerFail(w)
    \/ CloserClose
    \/ MainRecv
    \/ CallbackReturn
    \/ MainReturn

FairSpec == Init /\ [][Next]_vars /\ WF_vars(Progress /\ UNCHANGED <<uploadVars, appVars, timer, srv>>)

(* One worker and the whole range of errors, retry budgets and caps. *)
RetryInit ==
    /\ UploadIdle
    /\ TimerIdle
    /\ ServerIdle
    /\ AppIdle
    /\ \E its \in ItemSeqs({"good", "perm", "trans", "lim", "flaky", "deadline"},
                            (-1)..RetryMaxCap, RetryMaxItems),
          mr \in (-1)..RetryMaxRetries,
          pol \in {"partial", "failfast"},
          cb \in {"none", "mayfail"} :
            PoolInit(its, [workers |-> 1, maxRetries |-> mr, policy |-> pol, callback |-> cb])

RetrySpec == RetryInit /\ [][Next]_vars

(* Streaming runs with two or more workers. A goroutine that can send its   *)
(* completion does so, the calling goroutine receives what is in done, and  *)
(* the callback returns; nothing is assumed of the time a processor takes.  *)
StreamInit ==
    /\ UploadIdle
    /\ TimerIdle
    /\ ServerIdle
    /\ AppIdle
    /\ \E its \in ItemSeqs({"good", "trans"}, {0}, MaxItems),
          wk \in 2..MaxWorkers,
          mr \in 0..MaxRetriesCfg,
          pol \in {"partial", "failfast"} :
            PoolInit(its, [workers |-> wk, maxRetries |-> mr, policy |-> pol, callback |-> "mayfail"])

StreamFairness ==
    /\ \A w \in 1..MaxWorkers : WF_vars(w \in Workers /\ WorkerSend(w) /\ UNCHANGED <<uploadVars, appVars, timer, srv>>)
    /\ WF_vars(MainRecv /\ UNCHANGED <<uploadVars, appVars, timer, srv>>)
    /\ WF_vars(CallbackReturn /\ UNCHANGED <<uploadVars, appVars, timer, srv>>)

StreamSpec == StreamInit /\ [][Next]_vars /\ StreamFairness

(* RunFoundry, up to MaxRuns times, on a snapshot or a stream output. *)
AppInit ==
    /\ UploadIdle
    /\ TimerIdle
    /\ ServerIdle
    /\ PoolInit(<<>>, [workers |-> 1, maxRetries |-> 0, policy |-> "partial", callback |-> "none"])
    /\ dest = [snapshot |-> [exists |-> FALSE, file |-> <<>>], records |-> <<>>]
    /\ \E mode \in {"dataset", "stream"},
          mr \in 0..AppMaxRetries,
          pol \in {"partial", "failfast"},
          behav \in [Emails \ {<<>>} -> {"good", "perm", "flaky"}],
          input \in Inputs :
            /\ cfg = [mode |-> mode, stream |-> (mode = "stream"), maxRetries |-> mr,
                      policy |-> pol, behav |-> behav]
            /\ run = NewRun(input)
            /\ hist = FirstRun(input, 0)

AppNext ==
    \/ RunStart /\ UNCHANGED <<poolVars, uploadVars, timer, srv>>
    \/ RunResolveMode /\ UNCHANGED <<poolVars, uploadVars, timer, srv>>
    \/ RunReadExisting /\ UNCHANGED <<poolVars, uploadVars, timer, srv>>
    \/ RunPlan /\ UNCHANGED <<poolVars, uploadVars, timer, srv>>
    \/ RunEnrich /\ UNCHANGED <<poolVars, uploadVars, timer, srv>>
    \/ RunApply /\ UNCHANGED <<poolVars, uploadVars, timer, srv>>
    \/ RunUpload /\ UNCHANGED <<poolVars, uploadVars, timer, srv>>
    \/ RunStreamEnrich /\ UNCHANGED <<poolVars, uploadVars, timer, srv>>
    \/ RunPublish /\ UNCHANGED <<poolVars, uploadVars, timer, srv>>
    \/ RunAgain /\ UNCHANGED <<poolVars, uploadVars, timer, srv>>

AppSpec == AppInit /\ [][AppNext]_vars

(* One RunFoundry call against an output that other writers may have      *)
(* filled: no snapshot, a file that does not parse, or up to MaxPriorRows  *)
(* rows; the platform answers up to MaxGlitches requests with a 503.       *)
PriorRows ==
    {[email |-> <<"a">>, status |-> "ok", error |-> ""],
     [email |-> <<"a">>, status |-> "error", error |-> "boom"],
     [email |-> <<"a", " ">>, status |-> "OK", error |-> "note"],
     [email |-> <<"b">>, status |-> " ok ", error |-> ""],
     [email |-> <<"b">>, status |-> "", error |-> ""],
     [email |-> <<" ">>, status |-> "ok", error |-> ""]}

PriorSnapshots ==
    {[exists |-> FALSE, file |-> <<>>], [exists |-> TRUE, file |-> <<<<"email">>>>]}
    \cup {[exists |-> TRUE, file |-> WriteCSV(rows)] :
            rows \in UNION {[1..n -> PriorRows] : n \in 1..MaxPriorRows}}

RunInit ==
    /\ UploadIdle
    /\ TimerIdle
    /\ ServerIdle
    /\ PoolInit(<<>>, [workers |-> 1, maxRetries |-> 0, policy |-> "partial", callback |-> "none"])
    /\ \E target \in {<<"auto", FALSE>>, <<"auto", TRUE>>, <<"dataset", FALSE>>, <<"stream", TRUE>>},
          pol \in {"partial", "failfast"},
          behav \in [Emails \ {<<>>} -> {"good", "perm", "mute"}],
          input \in Inputs :
            /\ cfg = [mode |-> target[1], stream |-> target[2], maxRetries |-> 0,
                      policy |-> pol, behav |-> behav]
            /\ \E snapshot \in (IF target[2] THEN {[exists |-> FALSE, file |-> <<>>]}
                                 ELSE PriorSnapshots) :
                  dest = [snapshot |-> snapshot, records |-> <<>>]
            /\ run = NewRun(input)
            /\ hist = [FirstRun(input, MaxGlitches) EXCEPT !.runNo = MaxRuns]

RunNext ==
    \/ RunStart /\ UNCHANGED <<poolVars, uploadVars, timer, srv>>
    \/ RunResolveMode /\ UNCHANGED <<poolVars, uploadVars, timer, srv>>
    \/ RunReadExisting /\ UNCHANGED <<poolVars, uploadVars, timer, srv>>
    \/ RunPlan /\ UNCHANGED <<poolVars, uploadVars, timer, srv>>
    \/ RunEnrich /\ UNCHANGED <<poolVars, uploadVars, timer, srv>>
    \/ RunApply /\ UNCHANGED <<poolVars, uploadVars, timer, srv>>
    \/ RunUpload /\ UNCHANGED <<poolVars, uploadVars, timer, srv>>
    \/ RunStreamEnrich /\ UNCHANGED <<poolVars, uploadVars, timer, srv>>
    \/ RunPublish /\ UNCHANGED <<poolVars, uploadVars, timer, srv>>

RunSpec == RunInit /\ [][RunNext]_vars

(* applyEnrichedRows over every plan and every sequence of fresh rows, of  *)
(* the right length or not: the run stands between EnrichEmails and       *)
(* applyEnrichedRows (part_019, line 216).                                *)
MaxFresh == 3

FreshRows ==
    {[email |-> <<"a">>, status |-> "ok", error |-> ""],
     [email |-> <<"b">>, status |-> "error", error |-> "perm"]}

PlanInit ==
    /\ UploadIdle
    /\ TimerIdle
    /\ ServerIdle
    /\ PoolInit(<<>>, [workers |-> 1, maxRetries |-> 0, policy |-> "partial", callback |-> "none"])
    /\ cfg = [mode |-> "dataset", stream |-> FALSE, maxRetries |-> 0, policy |-> "partial",
              behav |-> [e \in Emails \ {<<>>} |-> "good"]]
    /\ \E input \in Inputs, snapshot \in PriorSnapshots,
          fresh \in UNION {[1..n -> FreshRows] : n \in 0..MaxFresh} :
            LET existing == readExistingOutputRows(ReadTableCSV(snapshot, "none"))
                plan == buildIncrementalPlan(input, existing.rows)
            IN  /\ existing.err = NoIOErr
                /\ Len(plan.pendingEmails) > 0
                /\ dest = [snapshot |-> snapshot, records |-> <<>>]
                /\ run = [NewRun(input) EXCEPT !.pc = "apply", !.sink = "dataset",
                                               !.existing = existing.rows, !.plan = plan,
                                               !.fresh = fresh]
                /\ hist = [FirstRun(input, 0) EXCEPT !.runNo = MaxRuns]

PlanNext ==
    \/ RunApply /\ UNCHANGED <<poolVars, uploadVars, timer, srv>>
    \/ RunUpload /\ UNCHANGED <<poolVars, uploadVars, timer, srv>>

PlanSpec == PlanInit /\ [][PlanNext]_vars

(* The backoff of processWithRetry for an item whose processor keeps      *)
(* failing with a retryable error: worker.go, lines 240-252, under every  *)
(* setting of the backoff options.                                         *)
MaxDelay == 4
MaxBackoffRetries == 4

JitterDraws == {-10, 0, 9}

BackoffInit ==
    /\ UploadIdle
    /\ ServerIdle
    /\ AppIdle
    /\ PoolInit(<<>>, [workers |-> 1, maxRetries |-> 0, policy |-> "partial", callback |-> "none"])
    /\ \E initial \in 0..MaxDelay, max \in 0..MaxDelay, jitter \in {0, 5} :
          LET o == backoffDefaults([initial |-> initial, max |-> max, jitter |-> jitter])
          IN  timer = [pc |-> "failed", initial |-> o.initial, max |-> o.max,
                       jitter |-> o.jitter, attempt |-> 0, sleep |-> 0]

\* line 245: sleep := backoffSleep(...); the timer is armed.
BackoffArm ==
    /\ timer.pc = "failed"
    /\ timer.attempt < MaxBackoffRetries
    /\ \E u \in JitterDraws :
          timer' = [timer EXCEPT !.pc = "sleeping",
                                 !.sleep = backoffSleep(timer.initial, timer.max, timer.jitter,
                                                        timer.attempt, u)]

\* lines 247-248: the timer fires and the next attempt fails again.
BackoffFire ==
    /\ timer.pc = "sleeping"
    /\ timer' = [timer EXCEPT !.pc = "failed", !.attempt = @ + 1]

BackoffNext ==
    \/ BackoffArm /\ UNCHANGED <<poolVars, uploadVars, appVars, srv>>
    \/ BackoffFire /\ UNCHANGED <<poolVars, uploadVars, appVars, srv>>

BackoffSpec == BackoffInit /\ [][BackoffNext]_vars

(* One item whose processor keeps failing with an untagged network or     *)
(* deadline error, under every retry budget.                              *)
NetInit ==
    /\ UploadIdle
    /\ TimerIdle
    /\ ServerIdle
    /\ AppIdle
    /\ \E its \in ItemSeqs(NetErrors \cup {"deadline"}, {0}, RetryMaxItems),
          mr \in (-1)..RetryMaxRetries,
          pol \in {"partial", "failfast"},
          cb \in {"none", "mayfail"} :
            PoolInit(its, [workers |-> 1, maxRetries |-> mr, policy |-> pol, callback |-> cb])

NetSpec == NetInit /\ [][Next]_vars

----------------------------------------------------------------------------
(* The emulator's upload and commit handlers (pkg/mockfoundry), serving    *)
(* requests concurrently. Each handler holds s.mu while it looks at or     *)
(* changes s.txns and releases it around its file-system work, so a        *)
(* handler is two critical sections with other requests in between.        *)

MaxServerTxns == 2
MaxRequests == 3

ServerInit ==
    /\ UploadIdle
    /\ TimerIdle
    /\ AppIdle
    /\ PoolInit(<<>>, [workers |-> 1, maxRetries |-> 0, policy |-> "partial", callback |-> "none"])
    /\ \E n \in 1..MaxServerTxns, ds \in [1..MaxServerTxns -> {"out", "other"}] :
          srv = [txns |-> [k \in 1..n |-> [dataset |-> ds[k], committed |-> FALSE, files |-> {}]],
                 reqs |-> <<>>]

\* A client sends an upload (of a path) or a commit request for a dataset
\* and a transaction id, known or not.
RequestArrives ==
    /\ Len(srv.reqs) < MaxRequests
    /\ \E d \in {"out", "other"}, t \in 1..(Len(srv.txns) + 1),
          p \in {"enriched.csv", "other.csv", ""} :
          srv' = [srv EXCEPT !.reqs = Append(@, [kind |-> IF p = "" THEN "commit" ELSE "upload",
                                                 dataset |-> d, txn |-> t, path |-> p,
                                                 pc |-> "admit", status |-> 0])]

\* handleUpload, lines 707-725: the first look at the transaction
\* (`!ok || txn.datasetRID != datasetRID`, then `txn.committed`).
UploadAdmit(r) ==
    LET q == srv.reqs[r]
        known == q.txn \in DOMAIN srv.txns /\ srv.txns[q.txn].dataset = q.dataset
    IN  /\ q.kind = "upload" /\ q.pc = "admit"
        /\ srv' = IF ~known THEN [srv EXCEPT !.reqs[r].pc = "answered", !.reqs[r].status = 404]
                  ELSE IF srv.txns[q.txn].committed
                  THEN [srv EXCEPT !.reqs[r].pc = "answered", !.reqs[r].status = 400]
                  ELSE [srv EXCEPT !.reqs[r].pc = "store"]

\* handleUpload, lines 727-790: the body is read and written to the upload
\* directory, which may fail; then, under one lock, the re-check and the store.
UploadStore(r) ==
    LET q == srv.reqs[r]
        known == q.txn \in DOMAIN srv.txns /\ srv.txns[q.txn].dataset = q.dataset
    IN  /\ q.kind = "upload" /\ q.pc = "store"
        /\ \E io \in {"ok", "failed"} :
              srv' = IF io = "failed"
                     THEN [srv EXCEPT !.reqs[r].pc = "answered", !.reqs[r].status = 500]
                     ELSE IF ~known
                     THEN [srv EXCEPT !.reqs[r].pc = "answered", !.reqs[r].status = 404]
                     ELSE IF srv.txns[q.txn].committed
                     THEN [srv EXCEPT !.reqs[r].pc = "answered", !.reqs[r].status = 400]
                     ELSE [srv EXCEPT !.reqs[r].pc = "answered", !.reqs[r].status = 200,
                                      !.txns[q.txn].files = @ \cup {q.path}]

\* handleCommit, lines 808-846: under one lock, the transaction is known,
\* open and holds exactly one file.
CommitAdmit(r) ==
    LET q == srv.reqs[r]
        known == q.txn \in DOMAIN srv.txns /\ srv.txns[q.txn].dataset = q.dataset
    IN  /\ q.kind = "commit" /\ q.pc = "admit"
        /\ srv' = IF ~known THEN [srv EXCEPT !.reqs[r].pc = "answered", !.reqs[r].status = 404]
                  ELSE IF srv.txns[q.txn].committed
                  THEN [srv EXCEPT !.reqs[r].pc = "answered", !.reqs[r].status = 400]
                  ELSE IF Cardinality(srv.txns[q.txn].files) = 0
                  THEN [srv EXCEPT !.reqs[r].pc = "answered", !.reqs[r].status = 400]
                  ELSE IF Cardinality(srv.txns[q.txn].files) /= 1
                  THEN [srv EXCEPT !.reqs[r].pc = "answered", !.reqs[r].status = 400]
                  ELSE [srv EXCEPT !.reqs[r].pc = "persist"]

\* handleCommit, lines 848-905: the head is written to the committed
\* directory, which may fail; then, under one lock, the re-check (known and
\* open) and the commit.
CommitFinish(r) ==
    LET q == srv.reqs[r]
        known == q.txn \in DOMAIN srv.txns /\ srv.txns[q.txn].dataset = q.dataset
    IN  /\ q.kind = "commit" /\ q.pc = "persist"
        /\ \E io \in {"ok", "failed"} :
              srv' = IF io = "failed"
                     THEN [srv EXCEPT !.reqs[r].pc = "answered", !.reqs[r].status = 500]
                     ELSE IF ~known
                     THEN [srv EXCEPT !.reqs[r].pc = "answered", !.reqs[r].status = 404]
                     ELSE IF srv.txns[q.txn].committed
                     THEN [srv EXCEPT !.reqs[r].pc = "answered", !.reqs[r].status = 400]
                     ELSE [srv EXCEPT !.reqs[r].pc = "answered", !.reqs[r].status = 200,
                                      !.txns[q.txn].committed = TRUE]

ServerNext ==
    \/ RequestArrives /\ UNCHANGED <<poolVars, uploadVars, appVars, timer>>
    \/ \E r \in 1..MaxRequests : r <= Len(srv.reqs) /\ UploadAdmit(r) /\ UNCHANGED <<poolVars, uploadVars, appVars, timer>>
    \/ \E r \in 1..MaxRequests : r <= Len(srv.reqs) /\ UploadStore(r) /\ UNCHANGED <<poolVars, uploadVars, appVars, timer>>
    \/ \E r \in 1..MaxRequests : r <= Len(srv.reqs) /\ CommitAdmit(r) /\ UNCHANGED <<poolVars, uploadVars, appVars, timer>>
    \/ \E r \in 1..MaxRequests : r <= Len(srv.reqs) /\ CommitFinish(r) /\ UNCHANGED <<poolVars, uploadVars, appVars, timer>>

ServerSpec == ServerInit /\ [][ServerNext]_vars

(* The pipeline's processor over raw identifiers, some of them empty once   *)
(* trimmed, under the whole range of retry budgets.                         *)
RawIdentifiers == {<<>>, <<"\t", " ">>, <<" ", "a", " ">>}

EmailInit ==
    /\ UploadIdle
    /\ TimerIdle
    /\ ServerIdle
    /\ AppIdle
    /\ \E its \in RawItemSeqs({"good", "trans"}, RawIdentifiers, MaxItems),
          wk \in 1..MaxWorkers,
          mr \in 0..RetryMaxRetries,
          pol \in {"partial", "failfast"},
          cb \in {"none", "mayfail"} :
            PoolInit(its, [workers |-> wk, maxRetries |-> mr, policy |-> pol, callback |-> cb])

EmailSpec == EmailInit /\ [][Next]_vars


----------------------------------------------------------------------------
(* Properties of the worker pool.                                          *)

N == Len(items)
Final(i) == finals[i] /= ZeroResult
Returned == ret.returned

\* The error the processor gives for item i on every attempt.
OwnErr(i) == [tag |-> items[i].kind, cap |-> items[i].cap, item |-> i]

(* C1: a call without completion callback that returns without error      *)
(* returns exactly N results, and entry i carries Input = items[i] with    *)
(* the outcome of processing items[i], whatever the number of workers and  *)
(* the order in which the items complete.                                  *)
C1_ResultsKeepInputOrder ==
    (Returned /\ opts.callback = "none" /\ ret.err = NoErr) =>
        /\ Len(ret.out) = N
        /\ \A i \in 1..N :
              /\ ret.out[i].input = items[i]
              /\ ret.out[i] = finals[i]
              /\ attempts[i] >= 1
              /\ items[i].kind = "good" => (ret.out[i].err = NoErr /\ ret.out[i].output = "value")
              /\ items[i].kind /= "good" => ret.out[i].err = OwnErr(i)

\* Two workers, and the second item's completion was received before the first's.
C1_Witness ==
    /\ Returned /\ opts.callback = "none" /\ ret.err = NoErr
    /\ N = 2 /\ opts.workers = 2 /\ reordered
    /\ items[1].kind /= items[2].kind

(* C2 (as amended): under partial-output, with no caller cancellation and  *)
(* no error from the completion callback, the call returns a nil error and *)
(* full-length results in which exactly the items that finally failed      *)
(* carry a non-nil error.                                                  *)
C2_PartialOutputReturnsAll ==
    (Returned /\ opts.policy = "partial" /\ ~ctxCancelled /\ ~cbFailed) =>
        /\ ret.err = NoErr
        /\ Len(ret.out) = N
        /\ \A i \in 1..N :
              /\ Final(i) /\ ret.out[i] = finals[i]
              /\ (ret.out[i].err /= NoErr) <=> (items[i].kind /= "good")

\* C2 as stated: no caller cancellation is the only condition.
C2_AsStated ==
    (Returned /\ opts.policy = "partial" /\ ~ctxCancelled) =>
        /\ ret.err = NoErr
        /\ Len(ret.out) = N
        /\ \A i \in 1..N :
              /\ Final(i) /\ ret.out[i] = finals[i]
              /\ (ret.out[i].err /= NoErr) <=> (items[i].kind /= "good")

\* A failure and a success side by side in the returned results.
C2_Witness ==
    /\ Returned /\ opts.policy = "partial" /\ ~ctxCancelled /\ ~cbFailed
    /\ N = 2 /\ items[1].kind = "perm" /\ items[2].kind = "good"
    /\ ret.out[1].err /= NoErr /\ ret.out[2].err = NoErr

(* C3 (as amended): under fail-fast, with no caller cancellation and no    *)
(* error from the completion callback, whenever an item ends in final      *)
(* failure the run context is cancelled and the call returns no results    *)
(* and the first failure handed to fail: the processor's own error of a    *)
(* finally-failed item, never the cancellation error of a worker that was  *)
(* shut down; with one worker it is the failure that occurred first.       *)
C3_FailFastReturnsFirstRegistered ==
    (Returned /\ opts.policy = "failfast" /\ firstFail /= 0 /\ ~ctxCancelled /\ ~cbFailed) =>
        /\ runCancelled
        /\ ret.out = <<>>
        /\ ret.err = firstReg
        /\ ret.err /= NoErr /\ ret.err /= Canceled
        /\ ret.err.item \in 1..N
        /\ finals[ret.err.item].err = ret.err
        /\ ret.err = OwnErr(ret.err.item)
        /\ opts.workers = 1 => ret.err.item = firstFail

\* C3 as stated: every fail-fast run in which an item ended in final failure
\* returns the first such failure, be it the first to occur or to be reported.
C3_AsStated ==
    (Returned /\ opts.policy = "failfast" /\ firstFail /= 0) =>
        /\ Cancelled
        /\ ret.out = <<>>
        /\ ret.err \in {finals[firstFail].err, firstReg}
        /\ ret.err /= Canceled

\* Another worker was shut down with a cancellation error, which is not returned.
C3_Witness ==
    /\ Returned /\ opts.policy = "failfast" /\ firstFail /= 0 /\ ~ctxCancelled /\ ~cbFailed
    /\ \E i \in 1..N : finals[i].err = Canceled
    /\ ret.err = finals[firstFail].err

(* C4: with one worker under fail-fast, once an item has ended in final    *)
(* failure the processor is never invoked for an item at a later position. *)
C4_NoInvocationAfterFailure ==
    [][(opts.workers = 1 /\ opts.policy = "failfast") =>
          \A i \in 1..N : (Final(i) /\ finals[i].err /= NoErr) =>
              \A j \in 1..N : j > i => (attempts[j] = 0 /\ attempts'[j] = 0)]_vars

\* The run is over, the first item failed and the second was never attempted.
C4_Witness ==
    /\ Returned /\ opts.workers = 1 /\ opts.policy = "failfast"
    /\ N = 2 /\ Final(1) /\ finals[1].err = OwnErr(1)
    /\ attempts[1] >= 1 /\ attempts[2] = 0

(* C5: an item whose processor always returns an unconditionally           *)
(* retryable error is attempted exactly 1 + maxRetries times unless the    *)
(* run is cancelled, and that error is then the item's final error; it is  *)
(* never attempted more often.                                             *)
C5_TransientAttempts ==
    \A i \in 1..N : items[i].kind = "trans" =>
        /\ attempts[i] <= 1 + opts.maxRetries
        /\ Final(i) =>
              /\ finals[i].err \in {OwnErr(i), Canceled}
              /\ finals[i].err = Canceled => Cancelled
              /\ finals[i].err = OwnErr(i) => attempts[i] = 1 + opts.maxRetries

\* Two extra retries: three attempts, then the error is final.
C5_Witness ==
    \E i \in 1..N :
        /\ items[i].kind = "trans" /\ opts.maxRetries = 2
        /\ Final(i) /\ finals[i].err = OwnErr(i) /\ attempts[i] = 3

Min(a, b) == IF a < b THEN a ELSE b
Max(a, b) == IF a > b THEN a ELSE b

\* The attempts a cap c allows under the default d.
CapAttempts(c, d) == 1 + Min(Max(c, 0), d)

(* C6 (as amended): an item whose processor always returns a               *)
(* capped-retryable error of cap c under a default of d is attempted       *)
(* exactly 1 + min(max(c, 0), d) times unless the run is cancelled, and    *)
(* never more often.                                                       *)
C6_CappedAttempts ==
    \A i \in 1..N : items[i].kind = "lim" =>
        /\ attempts[i] <= CapAttempts(items[i].cap, opts.maxRetries)
        /\ Final(i) =>
              /\ finals[i].err \in {OwnErr(i), Canceled}
              /\ finals[i].err = Canceled => Cancelled
              /\ finals[i].err = OwnErr(i) =>
                    attempts[i] = CapAttempts(items[i].cap, opts.maxRetries)

\* C6 as stated: exactly 1 + min(c, d) attempts for every such item that the
\* processor was invoked for and whose processing has ended.
C6_AsStated ==
    \A i \in 1..N : (items[i].kind = "lim" /\ items[i].cap >= 0 /\ Final(i) /\ attempts[i] >= 1) =>
        attempts[i] = 1 + Min(items[i].cap, opts.maxRetries)

\* The cap is lower than the default: cap 1 under 2 gives two attempts.
C6_Witness ==
    \E i \in 1..N :
        /\ items[i].kind = "lim" /\ items[i].cap = 1 /\ opts.maxRetries = 2
        /\ Final(i) /\ finals[i].err = OwnErr(i) /\ attempts[i] = 2

(* C7: an item whose processor returns an error that is neither tagged     *)
(* retryable nor recognised as transient is attempted exactly once,        *)
(* whatever the configured max retries.                                    *)
C7_PermanentAttemptedOnce ==
    \A i \in 1..N : items[i].kind = "perm" =>
        /\ attempts[i] <= 1
        /\ (Final(i) /\ finals[i].err = OwnErr(i)) => attempts[i] = 1
        /\ (Final(i) /\ finals[i].err /= OwnErr(i)) => (finals[i].err = Canceled /\ Cancelled)

\* Retries are configured, and the error is final after one attempt.
C7_Witness ==
    \E i \in 1..N :
        /\ items[i].kind = "perm" /\ opts.maxRetries = 2
        /\ Final(i) /\ finals[i].err = OwnErr(i) /\ attempts[i] = 1

----------------------------------------------------------------------------
(* Properties of the snapshot write.                                       *)

UReturned == upc = "returned"
OpenTxns == {k \in 1..Len(txns) : ~txns[k].committed}

\* The open transaction of the dataset that was created last (0: none is open).
MostRecentOpen(ts) ==
    IF \E k \in 1..Len(ts) : ~ts[k].committed
    THEN ts[CHOOSE k \in 1..Len(ts) :
               ~ts[k].committed /\ \A j \in 1..Len(ts) : ~ts[j].committed => j <= k].id
    ELSE 0

\* In a run that met the conflict no transaction is created or committed after
\* the listing, so the latest open transaction now is the one of that time.
LatestOpen == MostRecentOpen(txns)

(* C8: a commit is issued only for a transaction whose creation succeeded  *)
(* in this run; when creation reports that a transaction is already open,  *)
(* the run issues no commit at all.                                        *)
C8_CommitsOnlyOwnTransaction ==
    /\ \A id \in ulog.cmTargets : id /= 0 /\ id = ulog.created
    /\ ulog.conflict => (ulog.cmCalls = 0 /\ ulog.cmTargets = {} /\ ulog.created = 0)
    /\ ulog.conflict => \A id \in ulog.upTargets : \E k \in OpenTxns : txns[k].id = id

\* The write went through another run's open transaction and left it open.
C8_Witness ==
    /\ UReturned /\ uret = NoIOErr
    /\ ulog.conflict /\ ulog.upOK = 1 /\ ulog.cmCalls = 0
    /\ \E k \in OpenTxns : txns[k].id = LatestOpen /\ txns[k].files /= {}

(* C9 (as amended): when creation reports that a transaction is already    *)
(* open, every upload of the run goes into the open transaction of the     *)
(* destination dataset that was created last, and into no other; the run   *)
(* uploads nothing before the listing has shown that transaction, and a    *)
(* run that returns without error has uploaded into it once.               *)
C9_UploadsIntoLatestOpen ==
    ulog.conflict =>
        /\ \A id \in ulog.upTargets : id /= 0 /\ id = LatestOpen
        /\ upc = "list" => ulog.upCalls = 0
        /\ (UReturned /\ uret = NoIOErr) => (ulog.upOK = 1 /\ ulog.upTargets = {LatestOpen})

\* C9 as stated: every run that meets the conflict uploads into that transaction.
C9_AsStated ==
    (ulog.conflict /\ UReturned) =>
        /\ ulog.upOK >= 1
        /\ ulog.upTargets = {LatestOpen}

\* Two transactions are open; the upload went into the one created last.
C9_Witness ==
    /\ UReturned /\ uret = NoIOErr /\ ulog.conflict
    /\ Cardinality(OpenTxns) = 2
    /\ ulog.upOK = 1 /\ ulog.upTargets = {LatestOpen}
    /\ \E k \in OpenTxns : txns[k].id < LatestOpen /\ txns[k].files = {}

(* C10 (as amended): when the run's own creation succeeds, uploads and     *)
(* commits go to that transaction only; a commit is issued only after an   *)
(* upload has succeeded, and none when the upload finally fails; a run     *)
(* that returns without error has made exactly one successful upload       *)
(* followed by exactly one successful commit, each request being tried at  *)
(* most RetryAttempts times.                                               *)
C10_OwnTransactionUploadThenCommit ==
    ulog.created /= 0 =>
        /\ ulog.upTargets \subseteq {ulog.created}
        /\ ulog.cmTargets \subseteq {ulog.created}
        /\ ulog.upOK <= 1 /\ ulog.cmOK <= 1
        /\ ulog.upCalls <= RetryAttempts /\ ulog.cmCalls <= RetryAttempts
        /\ ~ulog.cmEarly
        /\ ulog.cmCalls > 0 => ulog.upOK = 1
        /\ (UReturned /\ uret = NoIOErr) => (ulog.upOK = 1 /\ ulog.cmOK = 1)
        /\ (UReturned /\ ulog.upOK = 0) => (ulog.cmCalls = 0 /\ uret /= NoIOErr)

\* C10 as stated: every run whose creation succeeded uploads once and commits once.
C10_AsStated ==
    (ulog.created /= 0 /\ UReturned) =>
        /\ ulog.upOK = 1 /\ ulog.cmOK = 1
        /\ ulog.upTargets = {ulog.created} /\ ulog.cmTargets = {ulog.created}
        /\ ~ulog.cmEarly

\* The upload was retried after a transient failure, then committed once.
C10_Witness ==
    /\ UReturned /\ uret = NoIOErr /\ ulog.created /= 0
    /\ ulog.upCalls = 2 /\ ulog.upOK = 1 /\ ulog.cmOK = 1
    /\ \E k \in 1..Len(txns) : txns[k].id = ulog.created /\ txns[k].committed


----------------------------------------------------------------------------
(* Properties of the streaming callback and of cancellation.               *)

(* C14 (as amended): in streaming mode, once the completion callback has   *)
(* returned an error the run context is cancelled and the call returns no  *)
(* results and the first error handed to fail, under either policy and     *)
(* whether or not the caller cancels: a callback error, or under fail-fast *)
(* the error of an item's result that a worker reported before it.         *)
C14_CallbackErrorEndsRun ==
    cbFailed =>
        /\ runCancelled
        /\ firstErr = firstReg /\ firstErr /= NoErr
        /\ Returned =>
              /\ ret.out = <<>>
              /\ ret.err = firstReg
              /\ \/ ret.err.tag = "callback" /\ cbCount[ret.err.item] = 1
                 \/ /\ opts.policy = "failfast"
                    /\ \E i \in 1..N : Final(i) /\ finals[i].err = ret.err
              /\ opts.policy = "partial" => ret.err.tag = "callback"

\* C14 as stated: the call returns a callback error whenever the callback
\* failed (shown here for the runs the caller does not cancel).
C14_AsStated ==
    (cbFailed /\ Returned /\ ~ctxCancelled) =>
        /\ Cancelled
        /\ ret.out = <<>>
        /\ ret.err.tag = "callback"

\* Partial-output, the caller has cancelled as well, and the callback's error is returned.
C14_Witness ==
    /\ Returned /\ cbFailed /\ opts.policy = "partial" /\ ctxCancelled
    /\ ret.err.tag = "callback" /\ ret.out = <<>>
    /\ \E i \in 1..N : Final(i) /\ finals[i].err = OwnErr(i) /\ items[i].kind /= "good"


(* C15: in streaming mode the completion callback is invoked at most once  *)
(* per input item, and only after that item's last attempt has finished:   *)
(* when it is invoked the item's result is final, no worker is still       *)
(* working on the item, and the processor is never invoked for it again.   *)
C15_CallbackOncePerItemAfterLastAttempt ==
    /\ [](\A i \in 1..N :
            /\ cbCount[i] <= 1
            /\ cbCount[i] = 1 =>
                  /\ Final(i) /\ attempts[i] <= 1 + opts.maxRetries
                  /\ \A w \in Workers : wjob[w] = i => wpc[w] = "fail")
    /\ [][\A i \in 1..N : cbCount'[i] = 1 =>
            (attempts'[i] = attempts[i] /\ finals'[i] = finals[i] /\ Final(i))]_vars

\* The callback has been invoked for an item that took two attempts.
C15_Witness ==
    \E i \in 1..N :
        /\ cbCount[i] = 1 /\ attempts[i] = 2 /\ Final(i)
        /\ finals[i].err = OwnErr(i) /\ items[i].kind = "trans"


(* C16: at no time are two invocations of the completion callback in       *)
(* progress, for any number of workers: the calling goroutine alone        *)
(* invokes it, and lets an invocation return before it receives the next   *)
(* completion.                                                             *)
C16_CallbackNeverConcurrent ==
    /\ cbActive <= 1
    /\ cbActive = 1 <=> mpc = "callback"
    /\ mpc = "callback" => (mcur \in 1..N /\ cbCount[mcur] = 1)

\* Two workers: a second completion is waiting in done while the callback runs.
C16_Witness ==
    /\ opts.workers = 2 /\ cbActive = 1 /\ mpc = "callback"
    /\ Len(done) >= 1 /\ Head(done).idx /= mcur


(* C17: in streaming mode with two or more workers, an item's callback is  *)
(* invoked once the item has completed, whether or not an item at an       *)
(* earlier position is still being processed: unless the run is cancelled, *)
(* a completed item's callback follows even if the processor never returns *)
(* for the other items.                                                    *)
Completed(j) == IF j <= N THEN Final(j) ELSE FALSE
CallbackInvoked(j) == IF j <= N THEN cbCount[j] = 1 ELSE FALSE

C17_CallbackFollowsCompletion ==
    \A j \in 1..MaxItems :
        Completed(j) ~> (CallbackInvoked(j) \/ Cancelled)

\* The second item's callback has been invoked while the first is still running.
C17_Witness ==
    /\ N = 2 /\ ~Cancelled
    /\ cbCount[2] = 1 /\ Final(2)
    /\ ~Final(1) /\ \E w \in Workers : wjob[w] = 1 /\ wpc[w] = "running"


\* Item i has been started: its processor has been invoked, or a worker holds
\* it past the context check that precedes the invocation.
Started(i) ==
    \/ attempts[i] > 0
    \/ \E w \in Workers : wjob[w] = i /\ wpc[w] \in {"call", "running", "sleep"}

C19_CancelDuringBackoff ==
    [][Cancelled =>
          \A w \in Workers :
              /\ wpc[w] = "sleep" =>
                    /\ wpc'[w] \in {"sleep", "loop", "send"}
                    /\ attempts'[wjob[w]] = attempts[wjob[w]]
                    /\ wpc'[w] = "send" =>
                          (wres'[w].err = Canceled /\ finals'[wjob[w]].err = Canceled)
              /\ (wpc[w] = "loop" /\ wattempt[w] > 0) =>
                    /\ wpc'[w] \in {"loop", "send"}
                    /\ attempts'[wjob[w]] = attempts[wjob[w]]
                    /\ wpc'[w] = "send" =>
                          (wres'[w].err = Canceled /\ finals'[wjob[w]].err = Canceled)]_vars

\* An item ended with the cancellation error after one of its two attempts,
\* the run having been cancelled by the failure of the other worker's item.
C19_Witness ==
    /\ runCancelled /\ ~ctxCancelled /\ ~cbFailed /\ opts.maxRetries = 1
    /\ \E w \in Workers :
          /\ wpc[w] = "send" /\ wres[w].err = Canceled
          /\ items[wjob[w]].kind = "trans" /\ attempts[wjob[w]] = 1

(***************************************************************************)
(* Properties of the pipeline's processor.                                 *)
(***************************************************************************)
Blank(i) == TrimSpace(items[i].raw) = <<>>

(* C20: an identifier that is empty after trimming never causes an         *)
(* invocation of the Enricher; its processor is invoked at most once and   *)
(* never retried, whatever the retry budget, and its result is the         *)
(* processor's "empty email" error (the cancellation error if the run was  *)
(* cancelled before the invocation); in a run that returns rows its row    *)
(* has the empty identifier and status error.                              *)
C20_EmptyIdentifierFailsOnce ==
    \A i \in 1..N : Blank(i) =>
        /\ enrichCalls[i] = 0
        /\ attempts[i] <= 1
        /\ \A w \in Workers : wjob[w] = i => wpc[w] /= "sleep"
        /\ Final(i) => finals[i].err \in {EmptyEmail(i), Canceled}
        /\ (Final(i) /\ attempts[i] = 1 /\ ~Cancelled) => finals[i].err = EmptyEmail(i)
        /\ (Returned /\ ret.err = NoErr) =>
              /\ attempts[i] = 1
              /\ rowFromWorkerResult(ret.out[i]) =
                    [email |-> <<>>, status |-> "error", error |-> "empty email"]

C20_Witness ==
    /\ Returned /\ ret.err = NoErr /\ N = 2
    /\ opts.maxRetries = RetryMaxRetries
    /\ items[1].raw = <<"\t", " ">> /\ items[1].kind = "trans"
    /\ attempts[1] = 1 /\ enrichCalls[1] = 0
    /\ rowFromWorkerResult(ret.out[1]).status = "error"
    /\ ~Blank(2) /\ enrichCalls[2] = 1 + RetryMaxRetries

(***************************************************************************)
(* Properties of the application's runs.                                   *)
(***************************************************************************)
PriorInput == SubSeq(run.input, 1, Len(run.input) - 1)
AddedEmail == TrimSpace(run.input[Len(run.input)])

\* This run's input is the previous one plus an identifier it did not hold.
AddsNewIdentifier ==
    /\ hist.kind = "added"
    /\ \A i \in 1..Len(PriorInput) : TrimSpace(PriorInput[i]) /= AddedEmail

EnrichmentOver == run.pc \in {"apply", "write"} \/ run.wrote /= "no"

(* C11 (as amended): for a snapshot sink, after a run whose rows all ended *)
(* with status ok and were committed, a rerun on the same input makes no   *)
(* enricher call; a run whose input adds one new identifier makes enricher *)
(* calls for the new identifier only, one per attempt: none if it is empty *)
(* after trimming, at least one and at most 1 + maxRetries once the        *)
(* enrichment is over, and exactly one when retries are disabled or the    *)
(* first attempt does not fail with a retryable error.                     *)
C11_IncrementalSnapshotRuns ==
    (cfg.mode = "dataset" /\ hist.cleanBase) =>
        /\ hist.kind = "rerun" => \A e \in Emails : hist.calls[e] = 0
        /\ AddsNewIdentifier =>
              /\ \A e \in Emails \ {AddedEmail} : hist.calls[e] = 0
              /\ hist.calls[AddedEmail] <= 1 + cfg.maxRetries
              /\ AddedEmail = <<>> => hist.calls[AddedEmail] = 0
              /\ (EnrichmentOver /\ AddedEmail /= <<>>) =>
                    /\ hist.calls[AddedEmail] >= 1
                    /\ (cfg.maxRetries = 0 \/ cfg.behav[AddedEmail] /= "flaky") =>
                          hist.calls[AddedEmail] = 1

\* As stated: the run that adds one new, non-empty identifier and returns
\* without error has made exactly one enricher call.
C11_AsStated ==
    (cfg.mode = "dataset" /\ hist.cleanBase /\ AddsNewIdentifier /\ AddedEmail /= <<>>
       /\ run.ret = "nil") =>
        /\ hist.calls[AddedEmail] = 1
        /\ \A e \in Emails \ {AddedEmail} : hist.calls[e] = 0

\* The third run, after a run and its rerun that both committed ok rows, has
\* enriched the added identifier once and committed three rows.
C11_Witness ==
    /\ cfg.mode = "dataset" /\ hist.runNo = 3 /\ hist.prevKind = "rerun" /\ hist.cleanBase
    /\ AddsNewIdentifier /\ AddedEmail = <<"b">>
    /\ run.ret = "nil" /\ run.wrote = "committed" /\ Len(run.rows) = 3
    /\ hist.calls[<<"b">>] = 1 /\ hist.calls[<<"a">>] = 0

(* C12: in a snapshot-sink run that reaches the write step, the written    *)
(* rows are one per input position, in input order, row i carrying the     *)
(* trimmed identifier of input position i and a status, whether the        *)
(* identifier repeats, is served from the prior snapshot or is enriched;   *)
(* a committed snapshot reads back as those rows.                          *)
C12_SnapshotRowsFollowInput ==
    (cfg.mode = "dataset" /\ run.wrote /= "no") =>
        /\ Len(run.rows) = Len(run.input)
        /\ \A i \in 1..Len(run.input) :
              /\ run.rows[i].email = TrimSpace(run.input[i])
              /\ run.rows[i].status \in {"ok", "error"}
        /\ run.wrote = "committed" => ReadCSV(dest.snapshot.file) = run.rows

\* Three rows were committed: the first served from the prior snapshot, the
\* second and third from the single enrichment of a repeated identifier.
C12_Witness ==
    /\ cfg.mode = "dataset" /\ run.wrote = "committed" /\ hist.runNo = 2
    /\ run.input = <<<<"b">>, <<"a">>, <<" ", "a">>>>
    /\ Len(run.fresh) = 1
    /\ DOMAIN run.plan.pendingIdx = {<<"a">>} /\ run.plan.pendingIdx[<<"a">>] = <<2, 3>>
    /\ hist.calls[<<"b">>] = 0 /\ hist.calls[<<"a">>] >= 1

\* The record of an identifier with status ok was in the stream before this run.
ServedFromCache(i) ==
    \E j \in 1..Len(hist.recsBefore) :
       /\ hist.recsBefore[j].email = TrimSpace(run.input[i])
       /\ hist.recsBefore[j].status = "ok"

(* C13, as stated: in a stream-sink run that completes without error,      *)
(* exactly one record is published for each input identifier whose ok      *)
(* record was not in the stream before the run, and none is published, and *)
(* no enricher call made, for an identifier whose ok record was.           *)
C13_AsStated ==
    (cfg.mode = "stream" /\ run.ret = "nil") =>
        \A i \in 1..Len(run.input) :
           IF ServedFromCache(i)
           THEN hist.pubs[i] = 0 /\ hist.calls[TrimSpace(run.input[i])] = 0
           ELSE hist.pubs[i] = 1

(***************************************************************************)
(* Properties of the incremental planner.                                  *)
(***************************************************************************)
Planned == run.plan.rows /= <<>>
KeyAt(i) == TrimSpace(run.input[i])

\* Input position i is recorded in the pending index.
PendingAt(i) ==
    \E key \in DOMAIN run.plan.pendingIdx :
       \E n \in 1..Len(run.plan.pendingIdx[key]) : run.plan.pendingIdx[key][n] = i

PendingKeys == {emailKey(run.plan.pendingEmails[k]) : k \in 1..Len(run.plan.pendingEmails)}

\* The cache holds a row for the trimmed identifier of position i, with status ok
\* (up to case and surrounding white space).
CachedOK(i) ==
    /\ KeyAt(i) \in DOMAIN run.existing
    /\ run.existing[KeyAt(i)].status \in {"ok", "OK", " ok "}

(* C21: the planner reuses the cached row for an input position exactly    *)
(* when the cache holds a row for the position's trimmed identifier whose  *)
(* status is ok; the reused row is the cached row with only the identifier *)
(* replaced by the trimmed input identifier, and such an identifier is not *)
(* in the pending set and is never passed to the enricher.                 *)
C21_ReusesExactlyOkRows ==
    Planned =>
        \A i \in 1..Len(run.input) :
           /\ CachedOK(i) <=> ~PendingAt(i)
           /\ CachedOK(i) <=> KeyAt(i) \notin PendingKeys
           /\ CachedOK(i) =>
                 /\ run.plan.rows[i] = [email |-> KeyAt(i),
                                        status |-> run.existing[KeyAt(i)].status,
                                        error |-> run.existing[KeyAt(i)].error]
                 /\ hist.calls[KeyAt(i)] = 0

\* The run committed two rows: the first is the prior row of "a " (status OK,
\* a note in its error field) under the trimmed identifier, the second was enriched.
C21_Witness ==
    /\ run.wrote = "committed" /\ run.input = <<<<" ", "a">>, <<"b">>>>
    /\ run.existing[<<"a">>] = [email |-> <<"a", " ">>, status |-> "OK", error |-> "note"]
    /\ run.rows[1] = [email |-> <<"a">>, status |-> "OK", error |-> "note"]
    /\ hist.calls[<<"a">>] = 0 /\ hist.calls[<<"b">>] = 1

\* The cache holds a row with status error for the identifier of position i.
CachedError(i) ==
    /\ KeyAt(i) \in DOMAIN run.existing
    /\ run.existing[KeyAt(i)].status = "error"

\* applyEnrichedRows has filled the pending positions of the plan.
Applied == Planned /\ (run.pc = "write" \/ run.wrote /= "no")

\* The row enrichment produces for an identifier in this run.
FreshRowOf(email) ==
    rowFromWorkerResult([input |-> EmailItem(1, email), output |-> "o",
                         err |-> emailProcessor(EmailItem(1, email), 0).err])

(* C22: an input identifier whose cached prior row has status error is     *)
(* always placed in the pending set; once the run's enrichment has         *)
(* completed the identifier has been passed to the enricher again and the  *)
(* row at its position is the freshly enriched row, never the prior row.   *)
C22_ErrorRowsAreRetried ==
    Planned =>
        \A i \in 1..Len(run.input) :
           CachedError(i) =>
              /\ PendingAt(i)
              /\ KeyAt(i) \in PendingKeys
              /\ Applied =>
                    /\ hist.calls[KeyAt(i)] >= 1
                    /\ run.plan.rows[i] = FreshRowOf(KeyAt(i))
                    /\ run.plan.rows[i] /= [run.existing[KeyAt(i)] EXCEPT !.email = KeyAt(i)]

\* The prior row of "a" had status error; the run enriched "a" again and
\* committed a row with status ok for it.
C22_Witness ==
    /\ run.wrote = "committed" /\ run.input[1] = <<"a">>
    /\ CachedError(1)
    /\ hist.calls[<<"a">>] = 1
    /\ run.rows[1] = [email |-> <<"a">>, status |-> "ok", error |-> ""]

\* How many entries of the pending set hold the identifier.
PendingCount(key) ==
    Cardinality({k \in 1..Len(run.plan.pendingEmails) :
                    emailKey(run.plan.pendingEmails[k]) = key})

(* C23: an identifier that is not served from the cache appears exactly    *)
(* once in the pending set however often it occurs in the input, so the    *)
(* run enriches it once (one enricher call when retries are disabled, none *)
(* for an identifier that is blank after trimming); after Apply every      *)
(* input position holding the identifier carries the same fresh row.       *)
C23_PendingIdentifiersAreUnique ==
    Planned =>
        \A i \in 1..Len(run.input) :
           ~CachedOK(i) =>
              /\ PendingCount(KeyAt(i)) = 1
              /\ Applied =>
                    /\ hist.calls[KeyAt(i)] = IF KeyAt(i) = <<>> THEN 0 ELSE 1
                    /\ \A j \in 1..Len(run.input) :
                          KeyAt(j) = KeyAt(i) => run.plan.rows[j] = run.plan.rows[i]
                    /\ run.plan.rows[i] = FreshRowOf(KeyAt(i))

\* The input holds "a" twice (once with a leading blank); the run enriched it
\* once and committed the same row at both positions.
C23_Witness ==
    /\ run.wrote = "committed" /\ run.input = <<<<"a">>, <<" ", "a">>>>
    /\ run.plan.pendingEmails = <<<<"a">>>>
    /\ run.plan.pendingIdx[<<"a">>] = <<1, 2>>
    /\ hist.calls[<<"a">>] = 1
    /\ run.rows[1] = run.rows[2] /\ run.rows[2].status = "error"

\* The fresh rows handed to applyEnrichedRows are not one per pending identifier.
RowCountMismatch == Len(run.fresh) /= Len(run.plan.pendingEmails)

(* C24: when the number of fresh rows handed to Apply differs from the     *)
(* number of unique pending identifiers, Apply returns an error and the    *)
(* run returns it: the plan's rows are left as they were, no file is       *)
(* written and the destination is unchanged.                               *)
C24_MismatchAbortsRun ==
    [][RowCountMismatch =>
          /\ run.pc = "apply"
          /\ run' = [run EXCEPT !.pc = "returned", !.ret = "error", !.err = MismatchErr]
          /\ run'.wrote = "no" /\ run'.rows = <<>>
          /\ dest' = dest]_vars

\* Apply was handed three rows for one pending identifier and the run
\* returned the mismatch error without writing.
C24_Witness ==
    /\ run.pc = "returned" /\ run.err = MismatchErr /\ run.ret = "error"
    /\ Len(run.fresh) = 3 /\ Len(run.plan.pendingEmails) = 1
    /\ run.wrote = "no" /\ dest.snapshot.exists

----------------------------------------------------------------------------
(* Properties of a run against the platform. *)

\* Nothing has been enriched, published or written by the run.
NothingDone ==
    /\ hist.calls = NoCalls
    /\ \A i \in DOMAIN hist.pubs : hist.pubs[i] = 0
    /\ dest.records = <<>>
    /\ run.wrote = "no" /\ run.rows = <<>>

(* C25: in auto mode the sink follows the answer of the stream probe alone: *)
(* a 2xx answer selects the stream sink, 404 selects the snapshot sink, and *)
(* any other answer the retry loop gives up on is returned as the run's     *)
(* error before anything is enriched, published or written.                 *)
C25_AutoModeFollowsProbe ==
    (cfg.mode = "auto" /\ run.pc \notin {"start", "mode"}) =>
        CASE run.probe = 200 -> run.sink = "stream" /\ run.existing = NewRun(run.input).existing
          [] run.probe = 404 -> run.sink = "dataset" /\ run.pc /= "stream" /\ dest.records = <<>>
          [] run.probe = 0 -> run.pc = "returned" /\ run.ret = "error" /\ run.sink = ""
          [] OTHER -> /\ run.pc = "returned" /\ run.ret = "error" /\ run.sink = ""
                      /\ run.err = HTTPError(run.probe, "", "")
                      /\ NothingDone

\* Auto mode against a destination that is a stream: the probe was refused with
\* 403 and the run returned that error at once.
C25_Witness ==
    /\ cfg.mode = "auto" /\ cfg.stream
    /\ run.probe = 403 /\ run.pc = "returned" /\ run.err = HTTPError(403, "", "")
    /\ NothingDone

\* The snapshot branch has read the destination's last committed snapshot.
CacheRead == run.sink = "dataset" /\ run.pc /= "existing"

\* The run returned the error of its cache read without doing anything else.
AbortedOnRead(err) ==
    /\ run.pc = "returned" /\ run.ret = "error" /\ run.err = err
    /\ run.plan = NoPlan
    /\ NothingDone

CacheReadDenied == CacheRead /\ run.resp.err = HTTPError(403, "", "PERMISSION_DENIED")

(* C27: a permission-denied answer to the read of the destination's prior  *)
(* output never fails the run: the run goes on with an empty cache and,    *)
(* when it returns an error, the error is not that of the read.  The       *)
(* snapshot branch violates it: readExistingOutputRows absorbs 404 only.   *)
C27_AsStated ==
    CacheReadDenied =>
        /\ run.existing = NewRun(run.input).existing
        /\ run.pc = "returned" => run.err /= run.resp.err

\* The failures isTransient recognises (io.go, lines 151-170).
RecognisedTransient(err) ==
    \/ err.kind = "http" /\ (err.status = 429 \/ err.status \in 500..599)
    \/ err.kind \in {"deadline", "nettimeout", "connreset", "connrefused"}

\* This step issues one attempt of a platform call.
IssuesAttempt ==
    /\ upc \in {"create", "list", "upload", "commit"} /\ ~usleep
    /\ ctxCancelled' = ctxCancelled

C29_AsStated ==
    (run.pc = "returned" /\ hist.glitches = MaxGlitches - 1) =>
        ~(run.ret = "error" /\ RecognisedTransient(run.err))

\* Enrichment of the identifier ends in an error whatever the attempt.
FinallyFails(key) == key = <<>> \/ cfg.behav[key] \in {"perm", "mute"}

\* The text of the error the identifier's enrichment ends with.
LastErrorText(key) ==
    IF key = <<>> THEN "empty email" ELSE ErrorText([tag |-> cfg.behav[key]])

\* The snapshot branch under partial-output has filled its rows.
PartialSnapshotRows == cfg.policy = "partial" /\ run.sink = "dataset" /\ Applied

(* C30, as amended: under partial-output enrichment failures never end a   *)
(* snapshot-sink run (a run that returns an error returns that of a        *)
(* platform call or of cancellation); the rows it writes hold, for every   *)
(* identifier whose enrichment finally failed, a row with status error     *)
(* whose error field is the redacted, trimmed text of the last error, and  *)
(* so non-empty unless that text is blank, next to the ok rows; a          *)
(* committed file is exactly these rows.                                   *)
C30_PartialSnapshotKeepsErrorRows ==
    /\ (cfg.policy = "partial" /\ run.sink = "dataset") =>
          /\ run.err /= EnrichErr
          /\ (run.pc = "returned" /\ run.ret = "error") =>
                run.err \in {CtxCanceled, UploadErr, ParseErr, run.resp.err}
    /\ PartialSnapshotRows =>
          /\ \A i \in 1..Len(run.input) :
                IF ~CachedOK(i) /\ FinallyFails(KeyAt(i))
                THEN /\ run.plan.rows[i].status = "error"
                     /\ run.plan.rows[i].error = Secrets(LastErrorText(KeyAt(i)))
                     /\ LastErrorText(KeyAt(i)) /= " " => run.plan.rows[i].error /= ""
                ELSE isStatusOK(run.plan.rows[i].status)
          /\ run.wrote /= "no" => run.rows = run.plan.rows
          /\ run.wrote = "committed" =>
                /\ dest.snapshot.file = WriteCSV(run.rows)
                /\ ReadCSV(dest.snapshot.file) = run.rows

(* C30, as stated: every identifier that finally failed has a row with     *)
(* status error and a non-empty error message.                             *)
C30_AsStated ==
    PartialSnapshotRows =>
        \A i \in 1..Len(run.input) :
           (~CachedOK(i) /\ FinallyFails(KeyAt(i))) =>
              run.plan.rows[i].status = "error" /\ run.plan.rows[i].error /= ""

\* A committed file with an ok row for "a" and an error row for "b", whose
\* enrichment failed.
C30_Witness ==
    /\ cfg.policy = "partial" /\ run.wrote = "committed" /\ run.ret = "nil"
    /\ run.input = <<<<"a">>, <<"b">>>>
    /\ ReadCSV(dest.snapshot.file) =
          <<[email |-> <<"a">>, status |-> "ok", error |-> ""],
            [email |-> <<"b">>, status |-> "error", error |-> "perm"]>>
    /\ hist.calls[<<"b">>] = 1

\* readExistingOutputRows has returned in this run.
CacheReadReturned == run.resp /= NewRun(run.input).resp

\* This step calls the enricher or writes to the destination.
EnrichesOrWrites ==
    \/ hist'.calls /= hist.calls
    \/ hist'.pubs /= hist.pubs
    \/ dest' /= dest
    \/ run'.wrote /= run.wrote

----------------------------------------------------------------------------
(* Properties of the backoff sleep. *)

RECURSIVE Pow2(_)
Pow2(k) == IF k = 0 THEN 1 ELSE 2 * Pow2(k - 1)

\* The sleep lies within the jitter fraction of m, up to the truncation of
\* the product to a whole duration.
WithinJitterOf(m) ==
    /\ 10 * timer.sleep <= (10 + timer.jitter) * m
    /\ 10 * (timer.sleep + 1) > (10 - timer.jitter) * m

(* C32, what backoffSleep does: the sleep that follows attempt k lies      *)
(* between (1 - j)*m and (1 + j)*m where m = min(initial * 2^k, cap) when  *)
(* the initial delay does not exceed the cap, and m = initial when it      *)
(* does: the sleep never exceeds (1 + j) * max(initial, cap).              *)
C32_SleepWithinJitterOfCappedDoubling ==
    timer.pc = "sleeping" =>
        /\ WithinJitterOf(IF timer.initial > timer.max THEN timer.initial
                          ELSE Min(timer.initial * Pow2(timer.attempt), timer.max))
        /\ 10 * timer.sleep <= (10 + timer.jitter) * Max(timer.initial, timer.max)

(* C32: the sleep that follows attempt k lies between (1 - j)*m and       *)
(* (1 + j)*m with m = min(initial * 2^k, cap), whatever the initial delay  *)
(* and the cap.  An initial delay above the cap violates it.               *)
C32_AsStated ==
    timer.pc = "sleeping" =>
        WithinJitterOf(Min(timer.initial * Pow2(timer.attempt), timer.max))

\* Initial delay 1, cap 3: the sleep after the third failure is the cap
\* with the largest jitter drawn.
C32_Witness ==
    /\ timer.pc = "sleeping" /\ timer.initial = 1 /\ timer.max = 3
    /\ timer.attempt = 2 /\ timer.jitter = 5
    /\ timer.sleep = 4

----------------------------------------------------------------------------
(* Further properties of the pool. *)

\* Item i was attempted 1 + maxRetries times when its own error became final.
RetriedToBudget(i) ==
    /\ attempts[i] <= 1 + opts.maxRetries
    /\ (Final(i) /\ finals[i].err = OwnErr(i)) => attempts[i] = 1 + opts.maxRetries

(* C33, as amended: an untagged timeout, temporary network error or        *)
(* deadline-exceeded is retried up to the configured budget (attempted     *)
(* 1 + maxRetries times unless the run is cancelled); an untagged refused  *)
(* or reset connection is not recognised and is attempted once.            *)
C33_TimeoutsRetriedResetsNot ==
    \A i \in 1..N :
       /\ items[i].kind \in {"nettimeout", "nettemp", "deadline"} => RetriedToBudget(i)
       /\ items[i].kind \in {"connreset", "connrefused"} =>
             /\ attempts[i] <= 1
             /\ (Final(i) /\ finals[i].err = OwnErr(i)) => attempts[i] = 1

(* C33, as stated: an untagged timeout, temporary network error,           *)
(* deadline-exceeded, connection-reset or connection-refused error is      *)
(* retried up to the pool-configured budget.                               *)
C33_AsStated ==
    \A i \in 1..N :
       items[i].kind \in NetErrors \cup {"deadline"} => RetriedToBudget(i)

\* Two extra retries: a temporary network error is final after three attempts.
C33_Witness ==
    \E i \in 1..N :
        /\ items[i].kind = "nettemp" /\ opts.maxRetries = 2
        /\ Final(i) /\ finals[i].err = OwnErr(i) /\ attempts[i] = 3

(* C34: at every moment of a pool run whose options name N workers, at most *)
(* N invocations of the processor are in progress.                          *)
InProgress == {w \in Workers : wpc[w] = "running"}

C34_AtMostNInvocations ==
    Cardinality(InProgress) <= opts.workers

(* Two workers are inside the processor at once, for two different items. *)
C34_Witness ==
    /\ opts.workers = 2
    /\ Cardinality(InProgress) = 2
    /\ \E v, w \in InProgress : wjob[v] /= wjob[w]

(* C35: provided every processor and callback invocation returns, a pool    *)
(* run returns and leaves no worker, producer or closer goroutine blocked,  *)
(* whatever the interleaving: fail-fast failures, callback errors and the   *)
(* caller's cancellation while workers hand over completions included.      *)
NoGoroutineLeft ==
    /\ \A w \in Workers : wpc[w] = "exit"
    /\ jobsClosed
    /\ doneClosed

C35_RunReturnsNothingBlocked ==
    <>[](ret.returned /\ NoGoroutineLeft)

(* A worker gave up handing over its completion because the run was        *)
(* cancelled, and the run has returned with every goroutine gone.           *)
C35_Witness ==
    /\ ret.returned
    /\ NoGoroutineLeft
    /\ \E i \in 1..N : finals[i] /= ZeroResult /\ out[i] = ZeroResult /\ nrecv < N

(* C36: once the completion callback has returned an error, it is not       *)
(* invoked again for any other item of the run. As stated, this is a       *)
(* property of every step: with a callback error behind it, no step        *)
(* invokes the callback.                                                   *)
C36_AsStated ==
    [][cbFailed => cbCount' = cbCount]_vars

(* C37 (as amended): a run whose caller cancelled before it returned        *)
(* returns no results and an error, under either policy: the first error    *)
(* handed to fail if there is one (a fail-fast item failure or a callback   *)
(* error registered before the cancellation was noticed), the caller's      *)
(* cancellation error otherwise. A successful result never holds a          *)
(* cancellation error among its entries.                                    *)
C37_CancelledRunReturnsNoResults ==
    Returned =>
        /\ ctxCancelled =>
              /\ ret.out = <<>>
              /\ ret.err = IF firstReg = NoErr THEN Canceled ELSE firstReg
        /\ ret.err = NoErr =>
              /\ Len(ret.out) = N
              /\ \A i \in 1..N : ret.out[i].err /= Canceled

\* C37 as stated: the error of a cancelled run is the caller's cancellation
\* error, whatever was registered before.
C37_AsStated ==
    (Returned /\ ctxCancelled) => (ret.out = <<>> /\ ret.err = Canceled)

(* Partial output: the caller cancelled, an item ended with the            *)
(* cancellation error and was collected, and the call returned the         *)
(* cancellation error and nothing else.                                    *)
C37_Witness ==
    /\ Returned /\ ctxCancelled
    /\ opts.policy = "partial"
    /\ firstReg = NoErr
    /\ \E i \in 1..N : out[i].err = Canceled
    /\ ret.err = Canceled /\ ret.out = <<>>

(***************************************************************************)
(* Further properties of a RunFoundry call.                                *)
(***************************************************************************)
\* Some identifier the plan sends to enrichment ends in an error.
PendingFailure ==
    \E k \in 1..Len(run.plan.pendingEmails) : FinallyFails(emailKey(run.plan.pendingEmails[k]))

C39_NoOpenTransactionFailsTheWrite ==
    (ulog.conflict /\ ulog.listed = "none") =>
        /\ UReturned
        /\ uret = NoOpenTxnErr
        /\ ulog.upCalls = 0 /\ ulog.cmCalls = 0
        /\ txnID = 0

\* The conflict was real: the other writer committed its transaction between
\* the run's CreateTransaction and its listing.
C39_Witness ==
    /\ ulog.conflict /\ ulog.listed = "none"
    /\ UReturned /\ uret = NoOpenTxnErr
    /\ \E k \in 1..Len(txns) : txns[k].committed /\ txns[k].files = {"other.csv"}

(***************************************************************************)
(* Properties of the emulator.                                             *)
(***************************************************************************)
(* C40: the emulator commits a transaction only if it is open, belongs to  *)
(* the addressed dataset and holds exactly one uploaded file, so that no   *)
(* committed transaction holds no file or several files, also when upload  *)
(* and commit requests for the same transaction interleave. As stated:     *)
C40_AsStated ==
    \A k \in 1..Len(srv.txns) :
        srv.txns[k].committed => Cardinality(srv.txns[k].files) = 1

====
